---- MODULE Spec2Model ----
(***************************************************************************)
(* Weighbridge Analytics: the aggregation routine computeAdvancedAnalytics *)
(* of the Insights component, as a state machine.  One ProcessRow step is  *)
(* one iteration of the routine's for-of loop over the rows; BuildReport   *)
(* is the code after the loop up to the return.                            *)
(*                                                                         *)
(* JavaScript values are tagged records.  Text that the code trims,        *)
(* lower-cases, matches or sorts is a sequence of one-character strings;   *)
(* names that are only used as keys (column names, group and shift names)  *)
(* are plain strings.  A JavaScript object used as a dictionary is the     *)
(* sequence of its [k, v] entries in insertion order, the order            *)
(* Object.keys and Object.entries enumerate non-index keys in.             *)
(***************************************************************************)
EXTENDS Integers, Sequences, FiniteSets, TLC

----------------------------------------------------------------------------
(* JavaScript values *)

Undefined == [t |-> "undefined"]

NaN == [t |-> "NaN"]

Str(s) == [t |-> "string", s |-> s]

Num(n) == [t |-> "number", n |-> n]

Bool(b) == [t |-> "boolean", b |-> b]

\* ToBoolean: what `a || b`, `a && b`, `!a` and `if (a)` test
Truthy(v) ==
  CASE v.t = "undefined" -> FALSE
    [] v.t = "NaN"       -> FALSE
    [] v.t = "string"    -> v.s # <<>>
    [] v.t = "number"    -> v.n # 0
    [] v.t = "boolean"   -> v.b

\* a || b
JsOr(a, b) == IF Truthy(a) THEN a ELSE b

----------------------------------------------------------------------------
(* Text *)

WhiteSpace == {" "}

Digits == <<"0", "1", "2", "3", "4", "5", "6", "7", "8", "9">>

IsDigit(c) == \E i \in 1..10 : Digits[i] = c

DigitVal(c) == (CHOOSE i \in 1..10 : Digits[i] = c) - 1

\* UTF-16 code unit of the characters the model's texts are written with
CharCode(c) ==
  CASE c = " " -> 32 [] c = "-" -> 45 [] c = "." -> 46 [] c = "/" -> 47
    [] IsDigit(c) -> 48 + DigitVal(c)
    [] c = ":" -> 58
    [] c = "A" -> 65 [] c = "B" -> 66 [] c = "D" -> 68 [] c = "N" -> 78
    [] c = "T" -> 84 [] c = "U" -> 85 [] c = "Z" -> 90
    [] c = "a" -> 97 [] c = "b" -> 98 [] c = "c" -> 99 [] c = "d" -> 100
    [] c = "e" -> 101
    [] c = "f" -> 102 [] c = "i" -> 105 [] c = "k" -> 107 [] c = "l" -> 108
    [] c = "m" -> 109 [] c = "n" -> 110 [] c = "o" -> 111 [] c = "r" -> 114
    [] c = "s" -> 115 [] c = "t" -> 116 [] c = "u" -> 117 [] c = "w" -> 119
    [] c = "y" -> 121 [] c = "z" -> 122

LowerChar(c) ==
  CASE c = "A" -> "a" [] c = "B" -> "b" [] c = "D" -> "d" [] c = "N" -> "n"
    [] c = "T" -> "t" [] c = "U" -> "u" [] c = "Z" -> "z"
    [] OTHER -> c

\* String.prototype.toLowerCase
ToLowerCase(s) == [i \in 1..Len(s) |-> LowerChar(s[i])]

RECURSIVE TrimStart(_)
TrimStart(s) ==
  IF s # <<>> /\ Head(s) \in WhiteSpace THEN TrimStart(Tail(s)) ELSE s

RECURSIVE TrimEnd(_)
TrimEnd(s) ==
  IF s # <<>> /\ s[Len(s)] \in WhiteSpace THEN TrimEnd(SubSeq(s, 1, Len(s) - 1)) ELSE s

\* String.prototype.trim
Trim(s) == TrimEnd(TrimStart(s))

\* a < b as Array.prototype.sort's default comparison orders two strings:
\* by code unit, a proper prefix first
RECURSIVE StrLess(_, _)
StrLess(a, b) ==
  IF b = <<>> THEN FALSE
  ELSE IF a = <<>> THEN TRUE
  ELSE IF CharCode(Head(a)) # CharCode(Head(b)) THEN CharCode(Head(a)) < CharCode(Head(b))
  ELSE StrLess(Tail(a), Tail(b))

RECURSIVE InsertSorted(_, _)
InsertSorted(k, sorted) ==
  IF sorted = <<>> THEN <<k>>
  ELSE IF StrLess(k, Head(sorted)) THEN <<k>> \o sorted
  ELSE <<Head(sorted)>> \o InsertSorted(k, Tail(sorted))

\* Array.prototype.sort() of an array of distinct strings
RECURSIVE Sort(_)
Sort(keys) ==
  IF keys = <<>> THEN <<>> ELSE InsertSorted(keys[Len(keys)], Sort(SubSeq(keys, 1, Len(keys) - 1)))

RECURSIVE NatToStr(_)
NatToStr(n) ==
  IF n < 10 THEN <<Digits[n + 1]>> ELSE NatToStr(n \div 10) \o <<Digits[(n % 10) + 1]>>

RECURSIVE StrToNat(_)
StrToNat(s) ==
  IF s = <<>> THEN 0 ELSE 10 * StrToNat(SubSeq(s, 1, Len(s) - 1)) + DigitVal(s[Len(s)])

\* String(v)
JsString(v) ==
  CASE v.t = "string"    -> v.s
    [] v.t = "number"    -> IF v.n < 0 THEN <<"-">> \o NatToStr(-v.n) ELSE NatToStr(v.n)
    [] v.t = "NaN"       -> <<"N", "a", "N">>
    [] v.t = "undefined" -> <<"u", "n", "d", "e", "f", "i", "n", "e", "d">>
    [] v.t = "boolean"   -> IF v.b THEN <<"t", "r", "u", "e">> ELSE <<"f", "a", "l", "s", "e">>

\* Number(v): a text converts when, trimmed, it is empty (0) or a run of
\* decimal digits; every other text of the model is not numeric (NaN)
ToNumber(v) ==
  CASE v.t = "number"    -> v
    [] v.t = "NaN"       -> NaN
    [] v.t = "undefined" -> NaN
    [] v.t = "boolean"   -> IF v.b THEN Num(1) ELSE Num(0)
    [] v.t = "string"    ->
         LET s == Trim(v.s)
         IN IF \A i \in 1..Len(s) : IsDigit(s[i]) THEN Num(StrToNat(s)) ELSE NaN

\* a + b of two numbers
JsAdd(a, b) == IF a.t = "number" /\ b.t = "number" THEN Num(a.n + b.n) ELSE NaN

----------------------------------------------------------------------------
(* Objects used as dictionaries: entries [k, v] in insertion order *)

ObjHas(o, k) == \E i \in 1..Len(o) : o[i].k = k

ObjGet(o, k) == o[CHOOSE i \in 1..Len(o) : o[i].k = k].v

ObjSet(o, k, v) ==
  IF ObjHas(o, k)
  THEN [i \in 1..Len(o) |-> IF o[i].k = k THEN [k |-> k, v |-> v] ELSE o[i]]
  ELSE Append(o, [k |-> k, v |-> v])

\* Object.keys(o)
ObjKeys(o) == [i \in 1..Len(o) |-> o[i].k]

\* the count restarts at every row
CountOfReset(o, k) == 0

\* (o[k] || 0) of a dictionary of counts
CountOf(o, k) == IF ObjHas(o, k) THEN ObjGet(o, k) ELSE 0

\* the sum restarts at every row
RevenueOfReset(o, k) == Num(0)

\* (o[k] || 0) of a dictionary of revenue sums
RevenueOf(o, k) == IF ObjHas(o, k) THEN JsOr(ObjGet(o, k), Num(0)) ELSE Num(0)

----------------------------------------------------------------------------
(* Rows.  A row is [person, date, impounded, truckId, the eight fine fields,
   raw]; raw gives every column the routine reads from r._raw, Undefined
   for a column the sheet does not have.  `r._raw?.[c]` of a row without
   _raw is undefined for every c, which is the raw with no column. *)

NameColumns == <<"User Full Name", "Driver Name", "Name", "Driver", "Owner Name">>

DateColumns == <<"date", "Date", "datetime", "Datetime">>

FineFields ==
  <<"amountDue", "gvmFine", "d1Fine", "d2Fine", "d3Fine", "d4Fine",
    "awkwardLoadFine", "amountDueDriver">>

FineColumns ==
  <<"Amount Due", "GVM Fine", "D1 Fine", "D2 Fine", "D3 Fine", "D4 Fine",
    "Awkward Load Fine", "Amount Due Driver">>

Range(f) == {f[i] : i \in DOMAIN f}

RawColumns == Range(NameColumns) \cup Range(DateColumns) \cup Range(FineColumns)

NoRaw == [c \in RawColumns |-> Undefined]

UnknownName == <<"U", "n", "k", "n", "o", "w", "n">>

UnknownDate == <<"U", "n", "k", "n", "o", "w", "n", " ", "D", "a", "t", "e">>

Unassigned == "Unassigned"

\* ['n/a', 'na', 'none', 'unknown', '-']
Placeholders ==
  { <<"n", "/", "a">>, <<"n", "a">>, <<"n", "o", "n", "e">>,
    <<"u", "n", "k", "n", "o", "w", "n">>, <<"-">> }

\* /^n\.?a\.?$/i.test(s)
MatchesNA(s) ==
  ToLowerCase(s) \in { <<"n", "a">>, <<"n", ".", "a">>, <<"n", "a", ".">>, <<"n", ".", "a", ".">> }

isPlaceholderName(v) ==
  IF v.t = "undefined" THEN TRUE
  ELSE LET s == Trim(JsString(v))
       IN IF s = <<>> THEN TRUE
          ELSE ToLowerCase(s) \in Placeholders \/ MatchesNA(s)

\* [r.person, r._raw?.['User Full Name'], ... , r._raw?.['Owner Name']]
Candidates(r) == <<r.person>> \o [i \in 1..Len(NameColumns) |-> r.raw[NameColumns[i]]]

\* the first candidate that is present wins, placeholder or not
RECURSIVE FirstPresent(_)
FirstPresent(candidates) ==
  IF candidates = <<>> THEN UnknownName
  ELSE IF Truthy(Head(candidates)) THEN Trim(JsString(Head(candidates)))
       ELSE FirstPresent(Tail(candidates))

RECURSIVE FirstAccepted(_)
FirstAccepted(candidates) ==
  IF candidates = <<>> THEN UnknownName
  ELSE IF Truthy(Head(candidates)) /\ ~isPlaceholderName(Head(candidates))
       THEN Trim(JsString(Head(candidates)))
       ELSE FirstAccepted(Tail(candidates))

resolvePersonName(r) == FirstAccepted(Candidates(r))

\* the key is matched whatever its letter case
LookupAnyCase(mapping, person) ==
  LET hits == {i \in 1..Len(mapping) :
                 ToLowerCase(mapping[i].k) = ToLowerCase(person) /\ mapping[i].v # ""}
  IN IF hits # {} THEN mapping[CHOOSE i \in hits : TRUE].v ELSE Unassigned

\* peopleToGroup[person] || 'Unassigned', the mapping's values being texts
Lookup(mapping, person) ==
  IF ObjHas(mapping, person) /\ ObjGet(mapping, person) # "" THEN ObjGet(mapping, person)
  ELSE Unassigned

----------------------------------------------------------------------------
(* Dates.  The date texts of the model are the ISO forms "2024-01-DD"
   (date only: midnight UTC) and "2024-01-DDTHH:MM" (no zone: local time);
   every other text does not parse.  A number is a time value in
   milliseconds since 1970-01-01T00:00Z.  tz is the environment's offset of
   local time from UTC, in hours. *)

Pad2(n) == <<Digits[(n \div 10) + 1], Digits[(n % 10) + 1]>>

January == <<"2", "0", "2", "4", "-", "0", "1", "-">>

TwoDigits(s, i) == DigitVal(s[i]) * 10 + DigitVal(s[i + 1])

IsDateOnly(s) ==
  /\ Len(s) = 10
  /\ SubSeq(s, 1, 8) = January
  /\ IsDigit(s[9]) /\ IsDigit(s[10])
  /\ TwoDigits(s, 9) \in 1..31

IsDateTime(s) ==
  /\ Len(s) = 16
  /\ IsDateOnly(SubSeq(s, 1, 10))
  /\ s[11] = "T" /\ s[14] = ":"
  /\ \A i \in {12, 13, 15, 16} : IsDigit(s[i])
  /\ TwoDigits(s, 12) \in 0..23 /\ TwoDigits(s, 15) \in 0..59

MsPerDay == 86400000

\* !isNaN(new Date(dateStr).getTime())
IsValidDate(v) ==
  CASE v.t = "string" -> IsDateOnly(v.s) \/ IsDateTime(v.s)
    [] v.t = "number" -> TRUE
    [] OTHER          -> FALSE

\* hours from 2024-01-01T00:00Z to the instant new Date(text) denotes
HoursOf(s, tz) ==
  IF IsDateOnly(s) THEN (TwoDigits(s, 9) - 1) * 24
  ELSE (TwoDigits(s, 9) - 1) * 24 + TwoDigits(s, 12) - tz

\* date.toISOString().split('T')[0] of a valid date: its UTC calendar day
IsoDay(v, tz) ==
  IF v.t = "number"
  THEN <<"1", "9", "7", "0", "-", "0", "1", "-">> \o Pad2(1 + (v.n \div MsPerDay))
  ELSE January \o Pad2(1 + (HoursOf(v.s, tz) \div 24))

\* r.date || r._raw?.date || r._raw?.Date || r._raw?.datetime || r._raw?.Datetime
dateStr(r) ==
  JsOr(JsOr(JsOr(JsOr(r.date, r.raw["date"]), r.raw["Date"]), r.raw["datetime"]), r.raw["Datetime"])

dayKey(r, tz) ==
  IF Truthy(dateStr(r)) /\ IsValidDate(dateStr(r)) THEN IsoDay(dateStr(r), tz) ELSE UnknownDate

\* new Date(date).toLocaleDateString() of a day key, in the en-US form M/D/YYYY:
\* the key is a date-only text, midnight UTC, shown as the local calendar day
LocaleDate(key, tz) ==
  LET d    == TwoDigits(key, 9)
      yyyy == SubSeq(key, 1, 4)
      prev == IF yyyy = <<"1", "9", "7", "0">> THEN <<"1", "9", "6", "9">> ELSE <<"2", "0", "2", "3">>
  IN IF tz >= 0 THEN <<"1", "/">> \o NatToStr(d) \o <<"/">> \o yyyy
     ELSE IF d > 1 THEN <<"1", "/">> \o NatToStr(d - 1) \o <<"/">> \o yyyy
     ELSE <<"1", "2", "/", "3", "1", "/">> \o prev

----------------------------------------------------------------------------
(* Revenue of a row *)

\* the trailing `|| 0` is left out
fineUnguarded(r, i) ==
  ToNumber(JsOr(JsOr(r[FineFields[i]], r.raw[FineColumns[i]]), Num(0)))

\* Number(r.field || r._raw?.[column] || 0) || 0
fine(r, i) ==
  JsOr(ToNumber(JsOr(JsOr(r[FineFields[i]], r.raw[FineColumns[i]]), Num(0))), Num(0))

amt(r) == fine(r, 1)

gvm(r) == fine(r, 2)

d1(r) == fine(r, 3)

d2(r) == fine(r, 4)

d3(r) == fine(r, 5)

d4(r) == fine(r, 6)

awk(r) == fine(r, 7)

amtDriver(r) == fine(r, 8)

rowRevenue(r) ==
  JsAdd(JsAdd(JsAdd(JsAdd(JsAdd(JsAdd(JsAdd(amt(r), gvm(r)), d1(r)), d2(r)), d3(r)), d4(r)), awk(r)), amtDriver(r))

\* r.truckId && r.truckId.trim(): only a text has a trim method
TruckIdThrows(r) == Truthy(r.truckId) /\ r.truckId.t # "string"

----------------------------------------------------------------------------
(* State: the arguments of computeAdvancedAnalytics (rows holds the rows the
   loop has taken so far; at BuildReport it is the whole argument), the
   environment's time zone, the routine's locals and the returned report.
   The caller's side: arg is the rows argument of a call that repeats an
   earlier one, first is what the earlier call returned. *)

VARIABLES
  rows, peopleToGroup, peopleToShift, tz, pc,
  perPersonCounts, perPersonImpounded, perPersonRevenue,
  perGroupCounts, perGroupRevenue, perShiftCounts, perShiftRevenue,
  impoundedByShift, impoundedByGroup, dailyActivity, truckIds,
  total, totalImpounded, totalRevenue, report,
  arg, first

inputs == <<peopleToGroup, peopleToShift, tz>>

locals ==
  <<perPersonCounts, perPersonImpounded, perPersonRevenue,
    perGroupCounts, perGroupRevenue, perShiftCounts, perShiftRevenue,
    impoundedByShift, impoundedByGroup, dailyActivity, truckIds,
    total, totalImpounded, totalRevenue>>

caller == <<arg, first>>

\* The rest of the application.  The conversion script: wDateRaw is the text
\* of a row's date cell, inferred what inferShift made of it.  The database:
\* peopleStore is the 'people' object store, nextId its key generator, call the
\* call in flight and log the calls that have returned; txOpen tells whether
\* this IndexedDB still accepts a request on a transaction after the function
\* that opened it has awaited another transaction's request.  The provider:
\* rows, peopleToGroup and peopleToShift above are its state, together with
\* dbInitialized; localStorage is the item under STORAGE_KEY, stored what
\* the previous session left there; effects are the effects of the current
\* commit still to run, loading is the position of loadData and runs are
\* the calls of syncGroupAssignments in flight.
VARIABLES
  wDateRaw, inferred,
  peopleStore, nextId, txOpen, call, log,
  dbInitialized, localStorage, stored, effects, loading, runs

script == <<wDateRaw, inferred>>

database == <<peopleStore, nextId, txOpen, call, log>>

provider == <<dbInitialized, localStorage, stored, effects, loading, runs>>

outside == <<script, database, provider>>

vars == <<rows, inputs, pc, locals, report, caller, outside>>

NoItem == [t |-> "null"]

NoCallInFlight == [op |-> "none"]

\* the script has read no row
ScriptIdle == wDateRaw = [t |-> "undefined"] /\ inferred = ""

\* a new database that nothing has called
DatabaseIdle ==
  /\ peopleStore = {} /\ nextId = 1 /\ txOpen = FALSE
  /\ call = NoCallInFlight /\ log = <<>>

\* the provider is not mounted
ProviderIdle ==
  /\ dbInitialized = FALSE /\ localStorage = NoItem /\ stored = NoItem
  /\ effects = <<>> /\ loading = "no" /\ runs = <<>>

\* nothing outside the routine is running
Idle == ScriptIdle /\ DatabaseIdle /\ ProviderIdle

NoReport == [t |-> "none"]

\* the component has not called the routine before
NoCall == arg = <<>> /\ first = NoReport

\* the longest rows argument explored
MaxRows == 3

\* lines 502-515: the locals as declared, before the loop
Start ==
  /\ rows = <<>>
  /\ pc = "loop"
  /\ perPersonCounts = <<>> /\ perPersonImpounded = <<>> /\ perPersonRevenue = <<>>
  /\ perGroupCounts = <<>> /\ perGroupRevenue = <<>>
  /\ perShiftCounts = <<>> /\ perShiftRevenue = <<>>
  /\ impoundedByShift = <<>> /\ impoundedByGroup = <<>>
  /\ dailyActivity = <<>>
  /\ truckIds = {}
  /\ total = 0 /\ totalImpounded = 0
  /\ totalRevenue = Num(0)
  /\ report = NoReport

\* the day's entry is made anew for every row
DayEntryReset(activity, key) == [total |-> 0, impounded |-> 0]

\* if (!dailyActivity[dayKey]) dailyActivity[dayKey] = { total: 0, impounded: 0 }
DayEntry(activity, key) ==
  IF ObjHas(activity, key) THEN ObjGet(activity, key) ELSE [total |-> 0, impounded |-> 0]

\* One iteration of `for (const r of rows)`.  The iteration throws a
\* TypeError at r.truckId.trim() when truckId is truthy and not a text; the
\* statements before that line have run, the ones after have not.
ProcessRow(r) ==
  LET person  == resolvePersonName(r)
      group   == Lookup(peopleToGroup, person)
      shift   == Lookup(peopleToShift, person)
      key     == dayKey(r, tz)
      revenue == rowRevenue(r)
      day     == DayEntry(dailyActivity, key)
      counted == [day EXCEPT !.total = @ + 1]
      hit     == ~TruckIdThrows(r) /\ Truthy(r.impounded)
  IN /\ pc = "loop"
     /\ rows' = Append(rows, r)
     /\ total' = total + 1
     /\ totalRevenue' = JsAdd(totalRevenue, revenue)
     /\ perPersonRevenue' = ObjSet(perPersonRevenue, person, JsAdd(RevenueOf(perPersonRevenue, person), revenue))
     /\ perGroupRevenue' = ObjSet(perGroupRevenue, group, JsAdd(RevenueOf(perGroupRevenue, group), revenue))
     /\ perShiftRevenue' = ObjSet(perShiftRevenue, shift, JsAdd(RevenueOf(perShiftRevenue, shift), revenue))
     /\ perPersonCounts' = ObjSet(perPersonCounts, person, CountOf(perPersonCounts, person) + 1)
     /\ perGroupCounts' = ObjSet(perGroupCounts, group, CountOf(perGroupCounts, group) + 1)
     /\ perShiftCounts' = ObjSet(perShiftCounts, shift, CountOf(perShiftCounts, shift) + 1)
     /\ dailyActivity' =
          ObjSet(dailyActivity, key, IF hit THEN [counted EXCEPT !.impounded = @ + 1] ELSE counted)
     /\ truckIds' =
          IF ~TruckIdThrows(r) /\ Truthy(r.truckId) /\ Trim(r.truckId.s) # <<>>
          THEN truckIds \cup {Trim(r.truckId.s)}
          ELSE truckIds
     /\ totalImpounded' = IF hit THEN totalImpounded + 1 ELSE totalImpounded
     /\ perPersonImpounded' =
          IF hit THEN ObjSet(perPersonImpounded, person, CountOf(perPersonImpounded, person) + 1)
          ELSE perPersonImpounded
     /\ impoundedByShift' =
          IF hit THEN ObjSet(impoundedByShift, shift, CountOf(impoundedByShift, shift) + 1)
          ELSE impoundedByShift
     /\ impoundedByGroup' =
          IF hit THEN ObjSet(impoundedByGroup, group, CountOf(impoundedByGroup, group) + 1)
          ELSE impoundedByGroup
     /\ pc' = IF TruckIdThrows(r) THEN "threw" ELSE "loop"
     /\ UNCHANGED <<inputs, report, caller, outside>>

----------------------------------------------------------------------------
(* After the loop.  A quotient a / b is kept exact, as [num, den]. *)

Frac(n, d) == [num |-> n, den |-> d]

\* x > c for a quotient x and an integer c
FracGreater(x, c) == x.num > c * x.den

Null == [t |-> "null"]

\* {} as the initial value of a reduce
EmptyObject == [t |-> "object"]

\* a > b of two numbers: false when either is NaN
JsGreater(a, b) == a.t = "number" /\ b.t = "number" /\ a.n > b.n

\* the table has a row for every key of the group mapping
peopleRowsOfMapping ==
  LET keys == Sort(ObjKeys(peopleToGroup))
  IN [i \in 1..Len(keys) |->
        [person    |-> keys[i],
         group     |-> Lookup(peopleToGroup, keys[i]),
         shift     |-> Lookup(peopleToShift, keys[i]),
         trucks    |-> CountOf(perPersonCounts, keys[i]),
         impounded |-> CountOf(perPersonImpounded, keys[i]),
         revenue   |-> RevenueOf(perPersonRevenue, keys[i])]]

\* lines 597-604
peopleRows ==
  LET keys == Sort(ObjKeys(perPersonCounts))
  IN [i \in 1..Len(keys) |->
        [person    |-> keys[i],
         group     |-> Lookup(peopleToGroup, keys[i]),
         shift     |-> Lookup(peopleToShift, keys[i]),
         trucks    |-> CountOf(perPersonCounts, keys[i]),
         impounded |-> CountOf(perPersonImpounded, keys[i]),
         revenue   |-> RevenueOf(perPersonRevenue, keys[i])]]

\* line 608: !isPlaceholderName(p) && p !== 'Unknown'
CountsAsPerson(p) == ~isPlaceholderName(Str(p)) /\ p # UnknownName

\* the placeholder test is left out
EligibleAnyName(name) == name # <<>>

\* lines 615 and 630: name && !isPlaceholderName(name) && name !== 'Unknown'
Eligible(name) == name # <<>> /\ ~isPlaceholderName(Str(name)) /\ name # UnknownName

uniquePeople == Cardinality({i \in 1..Len(perPersonCounts) : CountsAsPerson(perPersonCounts[i].k)})

\* the divisor is the number of keys of the per-person table, "Unknown" included
avgPerTableRow ==
  IF Len(perPersonCounts) > 0 THEN Frac(total, Len(perPersonCounts)) ELSE Frac(0, 1)

\* line 609: uniquePeople > 0 ? total / uniquePeople : 0

avgTrucksPerPerson == IF uniquePeople > 0 THEN Frac(total, uniquePeople) ELSE Frac(0, 1)

\* the impounded rows are set against the people, not against the rows
impoundedRatePerPerson ==
  IF uniquePeople > 0 THEN Frac(totalImpounded * 100, uniquePeople) ELSE Frac(0, 1)

\* line 610: (totalImpounded / total) * 100

impoundedRate == IF total > 0 THEN Frac(totalImpounded * 100, total) ELSE Frac(0, 1)

\* >= for >: the last of several people with the most rows wins
MoreTrucksOrEqual(max, person) ==
  IF person.trucks >= (IF max = EmptyObject THEN 0 ELSE max.trucks) THEN person ELSE max

\* (max, person) => (person.trucks > (max.trucks || 0) ? person : max)
MoreTrucks(max, person) ==
  IF person.trucks > (IF max = EmptyObject THEN 0 ELSE max.trucks) THEN person ELSE max

RECURSIVE ReduceTrucks(_, _)
ReduceTrucks(people, max) ==
  IF people = <<>> THEN max ELSE ReduceTrucks(Tail(people), MoreTrucks(max, Head(people)))

\* lines 614-616
topPerformer ==
  ReduceTrucks(SelectSeq(peopleRows, LAMBDA p : Eligible(p.person)), EmptyObject)

\* the first entry is kept whatever comes after it
MoreCountFirst(max, entry) == IF max.v = 0 THEN entry ELSE max

\* (max, [group, count]) => count > (max[1] || 0) ? [group, count] : max
MoreCount(max, entry) == IF entry.v > max.v THEN entry ELSE max

RECURSIVE ReduceCount(_, _)
ReduceCount(entries, max) ==
  IF entries = <<>> THEN max ELSE ReduceCount(Tail(entries), MoreCount(max, Head(entries)))

\* lines 619-620
topGroupEntry == ReduceCount(perGroupCounts, [k |-> "", v |-> 0])

\* lines 621-625
topGroup ==
  [name       |-> topGroupEntry.k,
   trucks     |-> topGroupEntry.v,
   percentage |-> IF total > 0 THEN Frac(topGroupEntry.v * 100, total) ELSE Frac(0, 1)]

\* (max, [name, rev]) => (rev > (max[1] || 0) ? [name, rev] : max)
MoreRevenue(max, entry) ==
  IF JsGreater(entry.v, JsOr(max.v, Num(0))) THEN entry ELSE max

RECURSIVE ReduceRevenue(_, _)
ReduceRevenue(entries, max) ==
  IF entries = <<>> THEN max ELSE ReduceRevenue(Tail(entries), MoreRevenue(max, Head(entries)))

\* lines 629-631
topRevenuePerformerEntry ==
  ReduceRevenue(SelectSeq(perPersonRevenue, LAMBDA e : Eligible(e.k)), [k |-> <<>>, v |-> Num(0)])

\* line 632
topRevenuePerformer ==
  [name    |-> IF topRevenuePerformerEntry.k # <<>> THEN topRevenuePerformerEntry.k ELSE UnknownName,
   revenue |-> JsOr(topRevenuePerformerEntry.v, Num(0))]

\* the second tier is tested on its own, not in the else branch of the first
impoundAlertsBothTiers ==
  (IF FracGreater(impoundedRate, 15)
   THEN <<[type |-> "danger", title |-> "High Impound Rate Alert", count |-> 0]>> ELSE <<>>)
  \o (IF FracGreater(impoundedRate, 10)
      THEN <<[type |-> "warning", title |-> "Elevated Impound Rate", count |-> 0]>> ELSE <<>>)

\* lines 637-649
impoundAlerts ==
  IF FracGreater(impoundedRate, 15) THEN <<[type |-> "danger", title |-> "High Impound Rate Alert", count |-> 0]>>
  ELSE IF FracGreater(impoundedRate, 10) THEN <<[type |-> "warning", title |-> "Elevated Impound Rate", count |-> 0]>>
  ELSE <<>>

\* line 652: p.trucks < avgTrucksPerPerson * 0.5
underPerformers ==
  SelectSeq(peopleRows, LAMBDA p : 2 * p.trucks * avgTrucksPerPerson.den < avgTrucksPerPerson.num)

\* one alert for each underperformer
performanceAlertsPerPerson ==
  [i \in 1..Len(underPerformers) |->
     [type |-> "warning", title |-> "Performance Gap Identified", count |-> 1]]

\* lines 653-659
performanceAlerts ==
  IF Len(underPerformers) > 0
  THEN <<[type |-> "warning", title |-> "Performance Gap Identified", count |-> Len(underPerformers)]>>
  ELSE <<>>

\* a person counts only when both the group and the shift are missing
unassignedInBoth ==
  Len(SelectSeq(peopleRows, LAMBDA p : p.group = Unassigned /\ p.shift = Unassigned))

\* line 662
unassignedCount ==
  Len(SelectSeq(peopleRows, LAMBDA p : p.group = Unassigned \/ p.shift = Unassigned))

\* lines 663-669
assignmentAlerts ==
  IF unassignedCount > 0
  THEN <<[type |-> "info", title |-> "Assignment Needed", count |-> unassignedCount]>>
  ELSE <<>>

\* the assignment alert is pushed first
alertsAssignmentFirst == assignmentAlerts \o impoundAlerts \o performanceAlerts

\* lines 635-669: the three pushes, in program order

alerts == impoundAlerts \o performanceAlerts \o assignmentAlerts

\* the keys are left in the order the rows met them
unsortedDates == ObjKeys(dailyActivity)

\* the "Unknown Date" bucket is dropped from the series
knownDates == Sort(SelectSeq(ObjKeys(dailyActivity), LAMBDA k : k # UnknownDate))

\* line 672
sortedDates == Sort(ObjKeys(dailyActivity))

\* lines 674-682
TrendLabel(date) == IF date = UnknownDate THEN date ELSE LocaleDate(date, tz)

\* lines 673-685
trends ==
  IF Len(sortedDates) > 1
  THEN [dates          |-> [i \in 1..Len(sortedDates) |-> TrendLabel(sortedDates[i])],
        dailyCounts    |-> [i \in 1..Len(sortedDates) |-> ObjGet(dailyActivity, sortedDates[i]).total],
        dailyImpounded |-> [i \in 1..Len(sortedDates) |-> ObjGet(dailyActivity, sortedDates[i]).impounded]]
  ELSE Null

\* lines 597-714: the rows are exhausted; the report is built and returned.
\* The dictionaries the report shares with the locals (perPerson, perGroup,
\* perShift, the revenue sums, impoundedBy*, dailyActivity and the three
\* totals) stay in the locals' variables.
BuildReport ==
  /\ pc = "loop"
  /\ report' =
       [peopleRows          |-> peopleRows,
        uniquePeople        |-> uniquePeople,
        avgTrucksPerPerson  |-> avgTrucksPerPerson,
        impoundedRate       |-> impoundedRate,
        topPerformer        |-> topPerformer,
        topGroup            |-> topGroup,
        uniqueTrucks        |-> Cardinality(truckIds),
        topRevenuePerformer |-> topRevenuePerformer,
        alerts              |-> alerts,
        trends              |-> trends]
  /\ pc' = "done"
  /\ UNCHANGED <<rows, inputs, locals, caller, outside>>

----------------------------------------------------------------------------
(* The caller.  The component calls the routine again whenever it renders
   with changed dependencies; a repeated call gets the same rows and the same
   two mappings.  The locals are declared inside the routine, so every call
   begins with fresh ones. *)

\* lines 687-714: everything the returned object holds
Returned ==
  [basic   |-> <<total, totalImpounded, totalRevenue, perPersonCounts, perGroupCounts,
                 perShiftCounts, perPersonRevenue, perGroupRevenue, perShiftRevenue>>,
   stats   |-> report,
   byShift |-> impoundedByShift,
   byGroup |-> impoundedByGroup,
   daily   |-> dailyActivity]

\* the locals outlive the call, as module-level state would
CallAgainKeepingLocals ==
  /\ pc = "done"
  /\ first = NoReport
  /\ first' = Returned
  /\ arg' = rows
  /\ rows' = <<>>
  /\ pc' = "loop"
  /\ report' = NoReport
  /\ UNCHANGED <<inputs, locals, outside>>

\* the second call: the first result is kept by the caller, the routine is
\* entered again with the same arguments and declares its locals anew
CallAgain ==
  /\ pc = "done"
  /\ first = NoReport
  /\ first' = Returned
  /\ arg' = rows
  /\ rows' = <<>>
  /\ pc' = "loop"
  /\ report' = NoReport
  /\ perPersonCounts' = <<>> /\ perPersonImpounded' = <<>> /\ perPersonRevenue' = <<>>
  /\ perGroupCounts' = <<>> /\ perGroupRevenue' = <<>>
  /\ perShiftCounts' = <<>> /\ perShiftRevenue' = <<>>
  /\ impoundedByShift' = <<>> /\ impoundedByGroup' = <<>>
  /\ dailyActivity' = <<>>
  /\ truckIds' = {}
  /\ total' = 0 /\ totalImpounded' = 0
  /\ totalRevenue' = Num(0)
  /\ UNCHANGED <<inputs, outside>>

----------------------------------------------------------------------------

(* Inputs *)

tBob == <<"B", "o", "b">>

tBobPadded == <<" ", "B", "o", "b", " ">>

tAmy == <<"a", "m", "y">>

tZed == <<"Z", "e", "d">>

tBlank == <<" ">>

tNA == <<"N", "/", "A">>

tNDotA == <<"n", ".", "a", ".">>

tDash == <<"-">>

tNone == <<"N", "o", "n", "e">>

tNotADate == <<"n", "o", "t", "-", "a", "-", "d", "a", "t", "e">>

tDay2 == January \o <<"0", "2">>

tDay3Late == January \o <<"0", "3", "T", "2", "3", ":", "0", "0">>

tDay5Early == January \o <<"0", "5", "T", "0", "1", ":", "0", "0">>

BaseRow ==
  [person |-> Undefined, date |-> Undefined, impounded |-> Bool(FALSE), truckId |-> Undefined,
   amountDue |-> Undefined, gvmFine |-> Undefined, d1Fine |-> Undefined, d2Fine |-> Undefined,
   d3Fine |-> Undefined, d4Fine |-> Undefined, awkwardLoadFine |-> Undefined,
   amountDueDriver |-> Undefined, raw |-> NoRaw]

\* no assignment; an empty assignment next to a real one
GroupMaps ==
  { <<>>,
    <<[k |-> tBob, v |-> ""], [k |-> tAmy, v |-> "Beta"]>> }

ShiftMaps ==
  { <<>>,
    <<[k |-> tAmy, v |-> "Day"], [k |-> tBob, v |-> "Night"]>> }

TimeZones == {-2, 0, 2}

\* Rows of the default specification: who, impounded or not, how much
MainRows ==
  { [BaseRow EXCEPT !.person = p, !.impounded = Bool(i), !.amountDue = a, !.date = Str(tDay2)] :
      p \in {Str(tBob), Str(tAmy), Str(tNA)},
      i \in BOOLEAN,
      a \in {Num(0), Num(100)} }

Init ==
  /\ Start
  /\ NoCall
  /\ Idle
  /\ peopleToGroup \in GroupMaps
  /\ peopleToShift \in ShiftMaps
  /\ tz = 0

Next ==
  \/ \E r \in MainRows : total < MaxRows /\ ProcessRow(r)
  \/ BuildReport

Spec == Init /\ [][Next]_vars

\* the longest rows argument explored for name resolution
MaxNameRows == 2

tUnknownUpper == <<"U", "N", "K", "N", "O", "W", "N">>

tNa == <<"N", "a">>

NameInputs ==
  { Undefined, Str(<<>>), Str(tBlank), Str(tNA), Str(tNDotA), Str(tDash), Str(tNone),
    Str(tUnknownUpper), Str(tNa), Str(tBobPadded) }

\* no raw name; a rejected column before an accepted one; two accepted
\* columns; rejected columns only
RawNameInputs ==
  { NoRaw,
    [NoRaw EXCEPT !["User Full Name"] = Str(tDash), !["Driver Name"] = Str(tAmy)],
    [NoRaw EXCEPT !["Name"] = Str(tZed), !["Owner Name"] = Str(tAmy)],
    [NoRaw EXCEPT !["Driver"] = Str(tNone), !["Owner Name"] = Str(tBlank)] }

NameRows ==
  { [BaseRow EXCEPT !.person = p, !.raw = w, !.amountDue = Num(100)] :
      p \in NameInputs, w \in RawNameInputs }

InitNames ==
  /\ Start
  /\ NoCall
  /\ Idle
  /\ peopleToGroup = <<>>
  /\ peopleToShift = <<>>
  /\ tz = 0

NextNames ==
  \/ \E r \in NameRows : total < MaxNameRows /\ ProcessRow(r)
  \/ BuildReport

SpecNames == InitNames /\ [][NextNames]_vars

\* missing; unparsable; a date only; late in the local day; an empty
\* canonical date with a raw "Date" column early in the local day
DateRows ==
  { [BaseRow EXCEPT !.person = Str(tBob), !.impounded = Bool(i), !.date = d[1], !.raw = d[2]] :
      i \in BOOLEAN,
      d \in { <<Undefined, NoRaw>>,
              <<Str(tNotADate), NoRaw>>,
              <<Str(tDay2), NoRaw>>,
              <<Str(tDay3Late), NoRaw>>,
              <<Str(<<>>), [NoRaw EXCEPT !["Date"] = Str(tDay5Early)]>> } }

InitDates ==
  /\ Start
  /\ NoCall
  /\ Idle
  /\ peopleToGroup = <<>>
  /\ peopleToShift = <<>>
  /\ tz \in TimeZones

NextDates ==
  \/ \E r \in DateRows : total < MaxRows /\ ProcessRow(r)
  \/ BuildReport

SpecDates == InitDates /\ [][NextDates]_vars

\* the longest rows argument explored for the revenue of a row
MaxFineRows == 2

tAbc == <<"a", "b", "c">>

tFifty == <<"5", "0">>

\* a canonical field with its raw column: both missing; canonical alone;
\* canonical 0 next to a raw amount; both amounts; a canonical text that is no
\* number; the NaN a failed parseFloat leaves, next to a numeric raw text;
\* a raw text that is no number
FinePairs ==
  { <<Undefined, Undefined>>,
    <<Num(100), Undefined>>,
    <<Num(0), Num(50)>>,
    <<Num(100), Num(50)>>,
    <<Str(tAbc), Num(50)>>,
    <<NaN, Str(tFifty)>>,
    <<Undefined, Str(tAbc)>> }

WithFine(r, i, canonical, column) ==
  [r EXCEPT ![FineFields[i]] = canonical, !.raw = [r.raw EXCEPT ![FineColumns[i]] = column]]

\* { amountDue: 100, gvmFine: 50 }, the rest absent
ExampleRow == [BaseRow EXCEPT !.amountDue = Num(100), !.gvmFine = Num(50)]

FineRows ==
  {ExampleRow} \cup {WithFine(BaseRow, i, v[1], v[2]) : i \in 1..8, v \in FinePairs}

InitFines ==
  /\ Start
  /\ NoCall
  /\ Idle
  /\ peopleToGroup = <<>>
  /\ peopleToShift = <<>>
  /\ tz = 0

NextFines ==
  \/ \E r \in FineRows : total < MaxFineRows /\ ProcessRow(r)
  \/ BuildReport

SpecFines == InitFines /\ [][NextFines]_vars

\* the longest rows argument explored for irregular field values
MaxIrregularRows == 1

tTruck == <<" ", "T", "1", " ">>

\* every field missing, empty, a text or a number, independently
IrregularRows ==
  { [BaseRow EXCEPT !.person = p, !.date = d, !.amountDue = a, !.truckId = t,
                    !.raw = [NoRaw EXCEPT !["Name"] = n]] :
      p \in {Undefined, Str(<<>>), Str(tBob), Num(7)},
      d \in {Undefined, Str(<<>>), Str(tNotADate), Num(7)},
      a \in {Undefined, Str(<<>>), Str(tAbc), Num(5)},
      t \in {Undefined, Str(<<>>), Str(tTruck), Num(7)},
      n \in {Undefined, Num(3)} }

InitIrregular ==
  /\ Start
  /\ NoCall
  /\ Idle
  /\ peopleToGroup = <<>>
  /\ peopleToShift = <<>>
  /\ tz = 0

NextIrregular ==
  \/ \E r \in IrregularRows : total < MaxIrregularRows /\ ProcessRow(r)
  \/ BuildReport

SpecIrregular == InitIrregular /\ [][NextIrregular]_vars

----------------------------------------------------------------------------
(* Inputs for the assignment lookup *)

\* the longest rows argument explored for the assignment lookup
MaxAssignRows == 3

tbob == <<"b", "o", "b">>

\* no assignment; an empty assignment next to a real one; a key that differs
\* from the name in letter case only; a key that differs in padding only
AssignGroupMaps ==
  { <<>>,
    <<[k |-> tBob, v |-> ""], [k |-> tAmy, v |-> "Beta"]>>,
    <<[k |-> tbob, v |-> "Alpha"]>>,
    <<[k |-> tBobPadded, v |-> "Alpha"]>> }

AssignShiftMaps ==
  { <<>>,
    <<[k |-> tbob, v |-> "Day"], [k |-> tBob, v |-> "Night"]>> }

AssignRows ==
  { [BaseRow EXCEPT !.person = Str(p)] : p \in {tBob, tBobPadded, tbob, tAmy} }

InitAssign ==
  /\ Start
  /\ NoCall
  /\ Idle
  /\ peopleToGroup \in AssignGroupMaps
  /\ peopleToShift \in AssignShiftMaps
  /\ tz = 0

NextAssign ==
  \/ \E r \in AssignRows : total < MaxAssignRows /\ ProcessRow(r)
  \/ BuildReport

SpecAssign == InitAssign /\ [][NextAssign]_vars

----------------------------------------------------------------------------

(* Inputs for the impound rate: one person, up to ten rows, so that the
   rate passes through both thresholds (1 of 10, 1 of 7, 1 of 6) *)

\* the longest rows argument explored for the impound rate
MaxRateRows == 10

RateRows == { [BaseRow EXCEPT !.person = Str(tBob), !.impounded = Bool(i)] : i \in BOOLEAN }

InitRates ==
  /\ Start
  /\ NoCall
  /\ Idle
  /\ peopleToGroup = <<[k |-> tBob, v |-> "Alpha"]>>
  /\ peopleToShift = <<[k |-> tBob, v |-> "Day"]>>
  /\ tz = 0

NextRates ==
  \/ \E r \in RateRows : total < MaxRateRows /\ ProcessRow(r)
  \/ BuildReport

SpecRates == InitRates /\ [][NextRates]_vars

----------------------------------------------------------------------------

(* Inputs for the alerts: two people and rows without a name, up to five
   rows, so that two people can fall below half the average at once *)

\* the longest rows argument explored for the alerts
MaxAlertRows == 5

AlertRows ==
  { [BaseRow EXCEPT !.person = Str(tBob), !.impounded = Bool(TRUE)],
    [BaseRow EXCEPT !.person = Str(tBob)],
    [BaseRow EXCEPT !.person = Str(tAmy)],
    [BaseRow EXCEPT !.person = Str(tNA)] }

InitAlerts ==
  /\ Start
  /\ NoCall
  /\ Idle
  /\ \/ peopleToGroup = <<>> /\ peopleToShift = <<>>
     \/ /\ peopleToGroup = <<[k |-> tBob, v |-> ""], [k |-> tAmy, v |-> "Beta"]>>
        /\ peopleToShift = <<[k |-> tAmy, v |-> "Day"], [k |-> tBob, v |-> "Night"]>>
     \/ /\ peopleToGroup = <<[k |-> tBob, v |-> "Alpha"], [k |-> tAmy, v |-> "Beta"]>>
        /\ peopleToShift = <<[k |-> tAmy, v |-> "Day"], [k |-> tBob, v |-> "Night"]>>
  /\ tz = 0

NextAlerts ==
  \/ \E r \in AlertRows : total < MaxAlertRows /\ ProcessRow(r)
  \/ BuildReport

SpecAlerts == InitAlerts /\ [][NextAlerts]_vars

----------------------------------------------------------------------------

(* Inputs for a repeated call *)

\* the longest rows argument explored for a repeated call
MaxTwiceRows == 2

\* who, impounded or not, how much, on which day, which truck
TwiceRows ==
  { [BaseRow EXCEPT !.person = p, !.impounded = Bool(i), !.amountDue = Num(100),
                    !.date = d, !.truckId = Str(tTruck)] :
      p \in {Str(tBob), Str(tAmy), Str(tNA)},
      i \in BOOLEAN,
      d \in {Undefined, Str(tDay3Late)} }

InitTwice ==
  /\ Start
  /\ NoCall
  /\ Idle
  /\ peopleToGroup \in GroupMaps
  /\ peopleToShift \in ShiftMaps
  /\ tz \in {-2, 0}

\* the first call takes any rows; the second call takes the rows of the first
NextTwice ==
  \/ \E r \in TwiceRows : first = NoReport /\ total < MaxTwiceRows /\ ProcessRow(r)
  \/ first # NoReport /\ Len(rows) < Len(arg) /\ ProcessRow(arg[Len(rows) + 1])
  \/ (first # NoReport => Len(rows) = Len(arg)) /\ BuildReport
  \/ CallAgain

SpecTwice == InitTwice /\ [][NextTwice]_vars

----------------------------------------------------------------------------

(* Inputs for the local calendar day: texts with a time of day and no zone,
   which new Date reads as local time *)

\* the longest rows argument explored for the local calendar day
MaxLocalRows == 3

tDay3Noon == January \o <<"0", "3", "T", "1", "2", ":", "0", "0">>

LocalDayRows ==
  { [BaseRow EXCEPT !.person = Str(tBob), !.date = Str(d)] : d \in {tDay3Noon, tDay3Late, tDay5Early} }

InitLocalDay ==
  /\ Start
  /\ NoCall
  /\ Idle
  /\ peopleToGroup = <<>>
  /\ peopleToShift = <<>>
  /\ tz \in TimeZones

NextLocalDay ==
  \/ \E r \in LocalDayRows : total < MaxLocalRows /\ ProcessRow(r)
  \/ BuildReport

SpecLocalDay == InitLocalDay /\ [][NextLocalDay]_vars

----------------------------------------------------------------------------

(* The conversion script: inferShift(dateStr), part_000 lines 21-29 *)

\* the hour of the UTC day
getUTCHours(v, zone) ==
  IF v.t = "number" THEN (v.n \div (MsPerDay \div 24)) % 24
  ELSE HoursOf(v.s, zone) % 24

\* d.getHours(): the hour of the local day of the instant new Date(dateStr)
getHours(v, zone) ==
  IF v.t = "number" THEN ((v.n \div (MsPerDay \div 24)) + zone) % 24
  ELSE (HoursOf(v.s, zone) + zone) % 24

inferShift(v, zone) ==
  IF ~Truthy(v) THEN "Unknown"
  ELSE IF ~IsValidDate(v) THEN "Unknown"
  ELSE LET h == getHours(v, zone)
       IN IF h >= 6 /\ h < 14 THEN "Morning"
          ELSE IF h >= 14 /\ h < 22 THEN "Afternoon"
          ELSE "Night"

\* the date cells: none, empty, not a date, a day, and every hour of a day at
\* its first and its last minute
DateCells ==
  {Undefined, Str(<<>>), Str(tNA)}
    \cup {Str(January \o Pad2(d)) : d \in {1, 3}}
    \cup {Str(January \o Pad2(3) \o <<"T">> \o Pad2(h) \o <<":">> \o Pad2(m)) : h \in 0..23, m \in {0, 59}}

InitShift ==
  /\ Start
  /\ NoCall
  /\ DatabaseIdle /\ ProviderIdle
  /\ peopleToGroup = <<>> /\ peopleToShift = <<>>
  /\ tz \in TimeZones
  /\ wDateRaw \in DateCells
  /\ inferred = ""

\* line 114: const shift = inferShift(wDateRaw)
InferShift ==
  /\ inferred = ""
  /\ inferred' = inferShift(wDateRaw, tz)
  /\ UNCHANGED <<rows, inputs, pc, locals, report, caller, wDateRaw, database, provider>>

NextShift == InferShift

SpecShift == InitShift /\ [][NextShift]_vars

----------------------------------------------------------------------------

(* The database: the people operations of WeighbridgeDB, part_005.  A record
   of the 'people' store is [id, name, group, shift], all three texts; the
   createdAt and updatedAt stamps are left out.  A call is carried from one
   IndexedDB request to the next: pc names the request the call waits for,
   and one step is that request's execution together with the code that runs
   from its callback up to the next request or the return.  A rejected
   promise is the value Rejected(error). *)

Rejected(error) == [t |-> "rejected", error |-> error]

NoUpdates == [name |-> Undefined, group |-> Undefined, shift |-> Undefined]

\* people.find(p => p.name.toLowerCase() === name.toLowerCase()) over the
\* result of getAll(), which is in the order of the keys
findByLowerCase(all, name) ==
  LET m == {p \in all : ToLowerCase(p.name) = ToLowerCase(name)}
  IN IF m = {} THEN Null ELSE CHOOSE p \in m : \A q \in m : p.id <= q.id

\* { ...person, ...updates }
Updated(p, updates) ==
  [id    |-> p.id,
   name  |-> IF updates.name.t = "string" THEN updates.name.s ELSE p.name,
   group |-> IF updates.group.t = "string" THEN updates.group.s ELSE p.group,
   shift |-> IF updates.shift.t = "string" THEN updates.shift.s ELSE p.shift]

\* the unique index on name refuses a second record with exactly this name
NameTaken(store, id, name) == \E q \in store : q.id # id /\ q.name = name

\* lines 252-276, the transaction of updatePerson: store.get(id), then
\* store.put of the merged record; a failed request aborts the transaction
updatePersonTx(store, id, updates) ==
  IF ~\E p \in store : p.id = id
  THEN [store |-> store, result |-> Rejected("Person not found")]
  ELSE LET p == CHOOSE q \in store : q.id = id
           u == Updated(p, updates)
       IN IF NameTaken(store, id, u.name)
          THEN [store |-> store, result |-> Rejected("ConstraintError")]
          ELSE [store |-> (store \ {p}) \cup {u}, result |-> Num(id)]

\* lines 226-228 with every argument taken as an update, empty or not
addPersonUpdatesAll(group, shift) ==
  [name |-> Undefined, group |-> Str(group), shift |-> Str(shift)]

\* lines 226-228: if (group) updates.group = group; if (shift) updates.shift = shift
addPersonUpdates(group, shift) ==
  [name  |-> Undefined,
   group |-> IF group # <<>> THEN Str(group) ELSE Undefined,
   shift |-> IF shift # <<>> THEN Str(shift) ELSE Undefined]

\* lines 343-345: only what differs from the record found
ifNotExistsUpdates(p, group, shift) ==
  [name  |-> Undefined,
   group |-> IF group # <<>> /\ group # p.group THEN Str(group) ELSE Undefined,
   shift |-> IF shift # <<>> /\ shift # p.shift THEN Str(shift) ELSE Undefined]

Returning(c, result) == [c EXCEPT !.pc = "returned", !.result = result]

\* lines 221-248 of addPerson, from the result of getAllPeople on: the update
\* of the record found is a request to come, and so is store.add
addPersonFrom(c, all) ==
  LET existingPerson == findByLowerCase(all, c.name)
  IN IF existingPerson # Null
     THEN IF c.group # <<>> \/ c.shift # <<>>
          THEN [c EXCEPT !.pc = "updatePerson", !.id = existingPerson.id,
                         !.updates = addPersonUpdates(c.group, c.shift)]
          ELSE Returning(c, Num(existingPerson.id))
     ELSE [c EXCEPT !.pc = "add"]

\* lines 340-357 of addPersonIfNotExists, from the result of findPersonByName on
addPersonIfNotExistsFrom(c, existingPerson) ==
  IF existingPerson # Null
  THEN LET updates == ifNotExistsUpdates(existingPerson, c.group, c.shift)
       IN IF updates # NoUpdates
          THEN [c EXCEPT !.pc = "updatePerson", !.id = existingPerson.id, !.updates = updates]
          ELSE Returning(c, Num(existingPerson.id))
  ELSE [c EXCEPT !.pc = "getAllPeople"]

\* store.add(person) of lines 237-248, on the transaction addPerson opened
\* before it awaited getAllPeople: refused once that transaction has finished,
\* and by the unique index on name
addRequest(c, store, next, open) ==
  LET person == [id |-> next, name |-> Trim(c.name), group |-> Trim(c.group), shift |-> Trim(c.shift)]
  IN IF ~open
     THEN [c |-> Returning(c, Rejected("TransactionInactiveError")), store |-> store, next |-> next]
     ELSE IF NameTaken(store, next, person.name)
     THEN [c |-> Returning(c, Rejected("ConstraintError")), store |-> store, next |-> next]
     ELSE [c |-> Returning(c, Num(next)), store |-> store \cup {person}, next |-> next + 1]

\* the request the call c waits for is executed on the store, and the call
\* runs on to its next request or to its return
Execute(c, store, next, open) ==
  CASE c.pc = "findPersonByName" ->
         [c |-> addPersonIfNotExistsFrom(c, findByLowerCase(store, c.name)), store |-> store, next |-> next]
    [] c.pc = "getAllPeople" ->
         [c |-> addPersonFrom(c, store), store |-> store, next |-> next]
    [] c.pc = "updatePerson" ->
         LET x == updatePersonTx(store, c.id, c.updates)
         IN [c |-> Returning(c, x.result), store |-> x.store, next |-> next]
    [] c.pc = "add" -> addRequest(c, store, next, open)
    [] c.pc = "delete" ->
         [c |-> Returning(c, Undefined), store |-> {p \in store : p.id # c.id}, next |-> next]

\* a call as it stands when its first request has been made
Called(op, name, group, shift, id, updates, request) ==
  [op |-> op, name |-> name, group |-> group, shift |-> shift, id |-> id,
   updates |-> updates, pc |-> request, result |-> Undefined, queue |-> <<>>]

(* Inputs for the database: three spellings of one name, calls one after the
   other, each begun when the one before has returned *)

tbobTrailing == <<"b", "o", "b", " ">>

tTeamA == <<"A">>

tTeamB == <<"B">>

tMorning == <<"M">>

PersonNames == {tBob, tbob, tbobTrailing}

\* the group and the shift of a call
Assignments == {<<<<>>, <<>>>>, <<tTeamA, <<>>>>, <<tTeamB, tMorning>>, <<<<>>, tMorning>>}

PersonIds == {1, 2}

\* the updates of Upload.jsx lines 614-618 (the form's name, group and shift)
\* and of an assignment
UpdateSets ==
  {[name |-> Str(tbob), group |-> Str(<<>>), shift |-> Str(<<>>)],
   [name |-> Str(tBob), group |-> Str(tTeamA), shift |-> Str(tMorning)],
   [NoUpdates EXCEPT !.group = Str(tTeamB)]}

ImportedPerson(name, group, shift) == [name |-> name, group |-> group, shift |-> shift]

\* data.people of importData
ImportLists ==
  {<<ImportedPerson(tBob, tTeamA, <<>>)>>,
   <<ImportedPerson(tBob, tTeamA, <<>>), ImportedPerson(tbob, <<>>, tMorning)>>,
   <<ImportedPerson(tbobTrailing, <<>>, <<>>), ImportedPerson(tBob, tTeamB, tMorning)>>}

\* the most calls made on one database
MaxCalls == 2

InitPeople ==
  /\ Start
  /\ NoCall
  /\ ScriptIdle /\ ProviderIdle
  /\ peopleToGroup = <<>> /\ peopleToShift = <<>>
  /\ tz = 0
  /\ peopleStore = {} /\ nextId = 1
  /\ txOpen \in BOOLEAN
  /\ call = NoCallInFlight /\ log = <<>>

Begin(c) ==
  /\ call = NoCallInFlight
  /\ call' = c
  /\ UNCHANGED <<rows, inputs, pc, locals, report, caller, script, provider, peopleStore, nextId, txOpen, log>>

\* lines 216-221: addPerson opens its transaction and asks for all people
CallAddPerson(name, group, shift) ==
  Begin(Called("addPerson", name, group, shift, 0, NoUpdates, "getAllPeople"))

\* line 340
CallAddPersonIfNotExists(name, group, shift) ==
  Begin(Called("addPersonIfNotExists", name, group, shift, 0, NoUpdates, "findPersonByName"))

\* lines 252-257
CallUpdatePerson(id, updates) ==
  Begin(Called("updatePerson", <<>>, <<>>, <<>>, id, updates, "updatePerson"))

\* lines 278-283
CallDeletePerson(id) ==
  Begin(Called("deletePerson", <<>>, <<>>, <<>>, id, NoUpdates, "delete"))

\* lines 555-558: the first addPerson of the loop over data.people
CallImportData(list) ==
  Begin([Called("importData", Head(list).name, Head(list).group, Head(list).shift, 0,
                NoUpdates, "getAllPeople") EXCEPT !.queue = Tail(list)])

\* The pending request of the call is executed.  A call that returns is
\* logged with the store it leaves; importData goes on to the next person
\* when an addPerson has resolved, and rejects when one has rejected.
Request(name) ==
  /\ call # NoCallInFlight
  /\ call.pc = name
  /\ LET x == Execute(call, peopleStore, nextId, txOpen)
     IN /\ peopleStore' = x.store
        /\ nextId' = x.next
        /\ IF x.c.pc # "returned"
           THEN call' = x.c /\ log' = log
           ELSE IF call.op = "importData" /\ x.c.result.t # "rejected" /\ call.queue # <<>>
           THEN /\ call' = [call EXCEPT !.name = Head(call.queue).name,
                                        !.group = Head(call.queue).group,
                                        !.shift = Head(call.queue).shift,
                                        !.pc = "getAllPeople",
                                        !.queue = Tail(call.queue)]
                /\ log' = log
           ELSE /\ call' = NoCallInFlight
                /\ log' = Append(log,
                     [op |-> call.op, name |-> call.name, group |-> call.group, shift |-> call.shift,
                      result |-> IF call.op = "importData" /\ x.c.result.t # "rejected"
                                 THEN Undefined ELSE x.c.result,
                      after |-> x.store])
  /\ UNCHANGED <<rows, inputs, pc, locals, report, caller, script, provider, txOpen>>

FindPersonByName == Request("findPersonByName")

GetAllPeople == Request("getAllPeople")

UpdatePerson == Request("updatePerson")

StoreAdd == Request("add")

StoreDelete == Request("delete")

\* another call may be made
MayCall == Len(log) < MaxCalls

NextPeople ==
  \/ \E name \in PersonNames, a \in Assignments : MayCall /\ CallAddPerson(name, a[1], a[2])
  \/ \E name \in PersonNames, a \in Assignments : MayCall /\ CallAddPersonIfNotExists(name, a[1], a[2])
  \/ \E id \in PersonIds, updates \in UpdateSets : MayCall /\ CallUpdatePerson(id, updates)
  \/ \E id \in PersonIds : MayCall /\ CallDeletePerson(id)
  \/ \E list \in ImportLists : MayCall /\ CallImportData(list)
  \/ FindPersonByName
  \/ GetAllPeople
  \/ UpdatePerson
  \/ StoreAdd
  \/ StoreDelete

SpecPeople == InitPeople /\ [][NextPeople]_vars

----------------------------------------------------------------------------

(* The provider: AppProvider of part_004 with the two handlers of
   ManageGroups.jsx that change the group mapping.  The effects of a commit
   run one after the other in the order of their declaration, and before the
   callback of any request made from them.  A call of syncGroupAssignments is
   a run: [kind, person, group] is the handler's call, assignments the mapping
   it was given, i the entry it is at, c the database call it awaits, synced
   the dbInitialized its closure holds.  The
   item of localStorage is the payload itself: JSON.stringify and JSON.parse
   give back the rows and the mappings of the model, whose absent fields read
   as undefined before and after.  The groups store is left out. *)

\* the first entry from the i-th on that `if (group)` lets through, or 0
NextEntry(assignments, i) ==
  LET js == {j \in i..Len(assignments) : assignments[j].v # <<>>}
  IN IF js = {} THEN 0 ELSE CHOOSE j \in js : \A l \in js : j <= l

\* lines 114-118: syncGroupAssignments up to its first getAllPeople
StartRun(kind, person, group, assignments) ==
  [kind |-> kind, person |-> person, group |-> group, assignments |-> assignments,
   i  |-> NextEntry(assignments, 1),
   pc |-> IF dbInitialized /\ NextEntry(assignments, 1) # 0 THEN "getAllPeople" ELSE "done",
   c  |-> NoCallInFlight, synced |-> dbInitialized]

\* people.find(p => p.name === person)
findByName(all, name) ==
  LET m == {p \in all : p.name = name}
  IN IF m = {} THEN Null ELSE CHOOSE p \in m : \A q \in m : p.id <= q.id

\* lines 122-129: the database call made for an entry once getAllPeople has
\* answered
SyncCall(entry, all) ==
  LET personRecord == findByName(all, entry.k)
  IN IF personRecord # Null
     THEN Called("updatePerson", <<>>, <<>>, <<>>, personRecord.id,
                 [NoUpdates EXCEPT !.group = Str(entry.v)], "updatePerson")
     ELSE Called("addPersonIfNotExists", entry.k, entry.v, <<>>, 0, NoUpdates, "findPersonByName")

\* the run after the call it awaited has returned: the catch of line 132 ends
\* it, otherwise the loop goes to the next entry with a group
Resumed(run, result) ==
  LET j == NextEntry(run.assignments, run.i + 1)
  IN IF result.t = "rejected" \/ j = 0
     THEN [run EXCEPT !.pc = "done", !.c = NoCallInFlight]
     ELSE [run EXCEPT !.pc = "getAllPeople", !.i = j, !.c = NoCallInFlight]

\* lines 38-50: the mappings built from the people of the database
FromPeople(all, field) ==
  LET ids == {p.id : p \in all}
      F[n \in 0..Cardinality(ids)] ==
        IF n = 0 THEN <<>>
        ELSE LET id == CHOOSE x \in ids : Cardinality({y \in ids : y <= x}) = n
                 p  == CHOOSE q \in all : q.id = id
             IN IF p[field] # <<>> THEN ObjSet(F[n - 1], p.name, p[field]) ELSE F[n - 1]
  IN F[Cardinality(ids)]

\* line 91
Payload == [rows |-> rows, peopleToGroup |-> peopleToGroup, peopleToShift |-> peopleToShift]

\* lines 63-71 of ManageGroups.jsx: the group's people get the empty group
Unassign(assignments, groupName) ==
  [i \in 1..Len(assignments) |->
     IF assignments[i].v = groupName THEN [k |-> assignments[i].k, v |-> <<>>] ELSE assignments[i]]

\* what a session may have left under STORAGE_KEY: nothing, or one row of Bob
\* and Bob in team A
SessionItems ==
  {NoItem,
   [rows |-> <<[BaseRow EXCEPT !.person = Str(tBob)]>>,
    peopleToGroup |-> <<[k |-> tBob, v |-> tTeamA]>>,
    peopleToShift |-> <<>>]}

AppPersons == {tBob, tAmy}

AppGroups == {tTeamA, tTeamB}

\* the most calls of the two handlers
MaxRuns == 2

\* the most reloads of the application
MaxReloads == 1

Reloaded == [kind |-> "reload", person |-> <<>>, group |-> <<>>, assignments |-> <<>>,
             i |-> 0, pc |-> "done", c |-> NoCallInFlight, synced |-> FALSE]

InitApp ==
  /\ Start
  /\ NoCall
  /\ ScriptIdle
  /\ peopleToGroup = <<>> /\ peopleToShift = <<>>
  /\ tz = 0
  /\ peopleStore = {} /\ nextId = 1
  /\ txOpen \in BOOLEAN
  /\ call = NoCallInFlight /\ log = <<>>
  /\ dbInitialized = FALSE
  /\ localStorage \in SessionItems
  /\ stored = localStorage
  /\ effects = <<>> /\ loading = "no" /\ runs = <<>>

analytics == <<pc, locals, report, caller, script, tz, call, log>>

\* lines 15-26: db.init() has resolved; the commit of setDbInitialized(true)
\* has the load effect and the save effect to run
Initialised ==
  /\ ~dbInitialized
  /\ effects = <<>>
  /\ dbInitialized' = TRUE
  /\ effects' = <<"load", "save">>
  /\ UNCHANGED <<analytics, rows, peopleToGroup, peopleToShift, peopleStore, nextId, txOpen,
                 localStorage, stored, loading, runs>>

\* lines 29-33: loadData starts and awaits db.getAllPeople()
LoadEffect ==
  /\ effects # <<>> /\ Head(effects) = "load"
  /\ effects' = Tail(effects)
  /\ loading' = "getAllPeople"
  /\ UNCHANGED <<analytics, rows, peopleToGroup, peopleToShift, peopleStore, nextId, txOpen,
                 dbInitialized, localStorage, stored, runs>>

\* lines 87-97
SaveEffect ==
  /\ effects # <<>> /\ Head(effects) = "save"
  /\ effects' = Tail(effects)
  /\ IF dbInitialized THEN localStorage' = Payload ELSE localStorage' = localStorage
  /\ UNCHANGED <<analytics, rows, peopleToGroup, peopleToShift, peopleStore, nextId, txOpen,
                 dbInitialized, stored, loading, runs>>

\* lines 34-64: getAllPeople has answered; the setters make a commit whose
\* save effect is to run
LoadData ==
  /\ loading = "getAllPeople"
  /\ effects = <<>>
  /\ loading' = "done"
  /\ IF peopleStore # {}
     THEN /\ peopleToGroup' = FromPeople(peopleStore, "group")
          /\ peopleToShift' = FromPeople(peopleStore, "shift")
          /\ rows' = rows
          /\ effects' = <<"save">>
     ELSE IF localStorage # NoItem
     THEN /\ rows' = localStorage.rows
          /\ peopleToGroup' = localStorage.peopleToGroup
          /\ peopleToShift' = localStorage.peopleToShift
          /\ effects' = <<"save">>
     ELSE UNCHANGED <<rows, peopleToGroup, peopleToShift, effects>>
  /\ UNCHANGED <<analytics, peopleStore, nextId, txOpen, dbInitialized, localStorage, stored, runs>>

\* setPeopleToGroupWithSync, lines 163-166: the state is set and a run begins
SetPeopleToGroup(kind, person, group, assignments) ==
  /\ effects = <<>>
  /\ peopleToGroup' = assignments
  /\ effects' = <<"save">>
  /\ runs' = Append(runs, StartRun(kind, person, group, assignments))
  /\ UNCHANGED <<analytics, rows, peopleToShift, peopleStore, nextId, txOpen,
                 dbInitialized, localStorage, stored, loading>>

\* ManageGroups.jsx lines 85-89
handleGroupAssignment(person, groupName) ==
  SetPeopleToGroup("assign", person, groupName, ObjSet(peopleToGroup, person, groupName))

\* ManageGroups.jsx lines 59-69; deleteGroup and loadGroups follow the run
handleDeleteGroup(groupName) ==
  SetPeopleToGroup("delete", <<>>, groupName, Unassign(peopleToGroup, groupName))

\* lines 121-129: getAllPeople has answered a run
SyncGetAllPeople(k) ==
  /\ runs[k].pc = "getAllPeople"
  /\ runs' = [runs EXCEPT ![k] = [@ EXCEPT !.pc = "db",
                                          !.c = SyncCall(runs[k].assignments[runs[k].i], peopleStore)]]
  /\ UNCHANGED <<analytics, rows, peopleToGroup, peopleToShift, peopleStore, nextId, txOpen,
                 dbInitialized, localStorage, stored, effects, loading>>

\* the request of the database call a run awaits is executed
SyncRequest(k) ==
  /\ runs[k].pc = "db"
  /\ LET x == Execute(runs[k].c, peopleStore, nextId, txOpen)
     IN /\ peopleStore' = x.store
        /\ nextId' = x.next
        /\ runs' = [runs EXCEPT ![k] = IF x.c.pc = "returned" THEN Resumed(@, x.c.result)
                                       ELSE [@ EXCEPT !.c = x.c]]
  /\ UNCHANGED <<analytics, rows, peopleToGroup, peopleToShift, txOpen,
                 dbInitialized, localStorage, stored, effects, loading>>

\* the page is loaded again: the state is the initial one, the database and
\* localStorage are as the session left them
Reload ==
  /\ effects = <<>>
  /\ loading \in {"no", "done"}
  /\ \A k \in 1..Len(runs) : runs[k].pc = "done"
  /\ rows' = <<>> /\ peopleToGroup' = <<>> /\ peopleToShift' = <<>>
  /\ dbInitialized' = FALSE
  /\ loading' = "no"
  /\ stored' = localStorage
  /\ runs' = Append(runs, Reloaded)
  /\ UNCHANGED <<analytics, peopleStore, nextId, txOpen, localStorage, effects>>

Handled == Cardinality({k \in 1..Len(runs) : runs[k].kind # "reload"})

NextApp ==
  \/ Initialised
  \/ LoadEffect
  \/ SaveEffect
  \/ LoadData
  \/ \E person \in AppPersons, groupName \in AppGroups \cup {<<>>} :
       Handled < MaxRuns /\ handleGroupAssignment(person, groupName)
  \/ \E groupName \in AppGroups : Handled < MaxRuns /\ handleDeleteGroup(groupName)
  \/ \E k \in 1..Len(runs) : SyncGetAllPeople(k)
  \/ \E k \in 1..Len(runs) : SyncRequest(k)
  \/ Len(runs) - Handled < MaxReloads /\ Reload

SpecApp == InitApp /\ [][NextApp]_vars

----------------------------------------------------------------------------

(* Properties *)

RECURSIVE SumCounts(_)
SumCounts(o) == IF o = <<>> THEN 0 ELSE Head(o).v + SumCounts(Tail(o))

Keys(o) == {o[i].k : i \in 1..Len(o)}

RowsOf(person) == {i \in 1..Len(rows) : resolvePersonName(rows[i]) = person}

RowsOfGroup(group) ==
  {i \in 1..Len(rows) : Lookup(peopleToGroup, resolvePersonName(rows[i])) = group}

RowsOfShift(shift) ==
  {i \in 1..Len(rows) : Lookup(peopleToShift, resolvePersonName(rows[i])) = shift}

\* C1: in every report the per-person counts, the per-group counts and the
\* per-shift counts each sum to totalTrucks, the number of rows, and every
\* bucket holds exactly the rows that resolve to it, so each row is counted
\* in one person, one group and one shift bucket.
C1_CountsSumToTotal ==
  pc = "done" =>
    /\ total = Len(rows)
    /\ SumCounts(perPersonCounts) = total
    /\ SumCounts(perGroupCounts) = total
    /\ SumCounts(perShiftCounts) = total
    /\ Cardinality(Keys(perPersonCounts)) = Len(perPersonCounts)
    /\ \A e \in Range(perPersonCounts) : e.v = Cardinality(RowsOf(e.k))
    /\ \A e \in Range(perGroupCounts) : e.v = Cardinality(RowsOfGroup(e.k))
    /\ \A e \in Range(perShiftCounts) : e.v = Cardinality(RowsOfShift(e.k))

C1_Witness ==
  /\ pc = "done"
  /\ total = 3
  /\ Len(perPersonCounts) = 2
  /\ Len(perGroupCounts) = 2
  /\ Len(perShiftCounts) = 2

\* C2: computeAdvancedAnalytics never raises, whatever the rows' fields are:
\* missing, empty, a text or a number, the truck identifier included.
C2_NeverRaises == pc # "threw"

People == {p \in Keys(perPersonCounts) : Eligible(p)}

FirstRow(p) == CHOOSE i \in RowsOf(p) : \A j \in RowsOf(p) : i <= j

Trucks(p) == Cardinality(RowsOf(p))

MostTrucks == {p \in People : \A q \in People : Trucks(q) <= Trucks(p)}

\* C4 as claimed: topPerformer is the non-placeholder person with the most
\* rows and, among several with the most rows, the one whose first row comes
\* earliest in the input.
C4_FirstSeenWins ==
  (pc = "done" /\ People # {}) =>
    /\ report.topPerformer # EmptyObject
    /\ report.topPerformer.person \in MostTrucks
    /\ \A q \in MostTrucks : FirstRow(report.topPerformer.person) <= FirstRow(q)

\* C4 as amended: topPerformer is the non-placeholder person with the most
\* rows and, among several with the most rows, the one whose name comes
\* first in the code-unit order the per-person table is sorted in; with no
\* such person it is the empty object.
C4_SortedFirstWins ==
  pc = "done" =>
    IF People = {} THEN report.topPerformer = EmptyObject
    ELSE /\ report.topPerformer # EmptyObject
         /\ report.topPerformer.person \in MostTrucks
         /\ report.topPerformer.trucks = Trucks(report.topPerformer.person)
         /\ \A q \in MostTrucks \ {report.topPerformer.person} :
              StrLess(report.topPerformer.person, q)

\* a tie in which the person seen first is not the one sorted first
C4_Witness ==
  /\ pc = "done"
  /\ Cardinality(MostTrucks) = 2
  /\ \E q \in MostTrucks : FirstRow(q) < FirstRow(report.topPerformer.person)

RECURSIVE SumRevenue(_, _)
SumRevenue(person, n) ==
  IF n = 0 THEN 0
  ELSE SumRevenue(person, n - 1)
         + (IF resolvePersonName(rows[n]) = person THEN rowRevenue(rows[n]).n ELSE 0)

Revenue(p) == SumRevenue(p, Len(rows))

MostRevenue == {p \in People : \A q \in People : Revenue(q) <= Revenue(p)}

\* C5: whenever some row resolves to a non-placeholder person,
\* topRevenuePerformer names the non-placeholder person with the largest
\* summed revenue (among several, the one met first in the input) and carries
\* that sum, whatever the revenues are.
C5_TopRevenuePerformer ==
  (pc = "done" /\ People # {}) =>
    /\ report.topRevenuePerformer.name \in MostRevenue
    /\ \A q \in MostRevenue : FirstRow(report.topRevenuePerformer.name) <= FirstRow(q)
    /\ report.topRevenuePerformer.revenue = Num(Revenue(report.topRevenuePerformer.name))

\* the placeholder texts, lower case: the listed ones and the ones the
\* pattern n, optional dot, a, optional dot admits
PlaceholderTexts ==
  { <<"n", "/", "a">>, <<"n", "a">>, <<"n", "o", "n", "e">>,
    <<"u", "n", "k", "n", "o", "w", "n">>, <<"-">>,
    <<"n", ".", "a", ".">>, <<"n", ".", "a">>, <<"n", "a", ".">> }

\* a candidate is accepted unless it is missing, empty, whitespace only or a
\* placeholder in any letter case
Accepted(c) ==
  /\ c # Undefined
  /\ Trim(c.s) # <<>>
  /\ ToLowerCase(Trim(c.s)) \notin PlaceholderTexts

\* canonical person, then the raw columns in their fixed order
CandidatesInOrder(r) ==
  <<r.person, r.raw["User Full Name"], r.raw["Driver Name"], r.raw["Name"],
    r.raw["Driver"], r.raw["Owner Name"]>>

AcceptedAt(r) == {j \in 1..6 : Accepted(CandidatesInOrder(r)[j])}

FirstAcceptedAt(r) == CHOOSE j \in AcceptedAt(r) : \A l \in AcceptedAt(r) : j <= l

\* rows all of whose candidates are rejected
UnknownRows == {i \in 1..Len(rows) : AcceptedAt(rows[i]) = {}}

\* C3: the rows whose every name candidate is empty, whitespace only or a
\* placeholder are counted under the per-person key "Unknown": they add to
\* totalTrucks and to the Unknown row of the per-person table, while
\* "Unknown" is not counted in uniquePeople and its row is reported neither
\* as topPerformer nor as topRevenuePerformer.
C3_UnknownBucket ==
  (pc = "done" /\ UnknownRows # {}) =>
    /\ total = Len(rows)
    /\ ObjHas(perPersonCounts, UnknownName)
    /\ ObjGet(perPersonCounts, UnknownName) = Cardinality(UnknownRows)
    /\ \E i \in 1..Len(report.peopleRows) :
         /\ report.peopleRows[i].person = UnknownName
         /\ report.peopleRows[i].trucks = Cardinality(UnknownRows)
    /\ report.uniquePeople = Cardinality(Keys(perPersonCounts) \ {UnknownName})
    /\ report.topPerformer # EmptyObject => report.topPerformer.person # UnknownName
    /\ report.topRevenuePerformer.name = UnknownName => report.topRevenuePerformer.revenue = Num(0)

\* the Unknown row has the most rows and the most revenue, next to a person
C3_Witness ==
  /\ pc = "done"
  /\ Cardinality(UnknownRows) = 1
  /\ total = 2
  /\ report.uniquePeople = 1
  /\ report.topRevenuePerformer.name # UnknownName
  /\ RevenueOf(perPersonRevenue, UnknownName) = Num(100)

\* C8: the resolved person name of a row is the trimmed text of the first
\* accepted candidate in the order canonical person, "User Full Name",
\* "Driver Name", "Name", "Driver", "Owner Name", whatever the rejected
\* candidates before it are, and it is "Unknown" exactly when no candidate is
\* accepted; the row is counted under that name.
C8_FirstAcceptedCandidate ==
  \A i \in 1..Len(rows) :
    /\ ObjHas(perPersonCounts, resolvePersonName(rows[i]))
    /\ resolvePersonName(rows[i]) = UnknownName <=> AcceptedAt(rows[i]) = {}
    /\ AcceptedAt(rows[i]) # {} =>
         resolvePersonName(rows[i]) = Trim(CandidatesInOrder(rows[i])[FirstAcceptedAt(rows[i])].s)

\* a rejected canonical person and a rejected first column before an accepted one
C8_Witness ==
  \E i \in 1..Len(rows) :
    /\ rows[i].person = Str(tNDotA)
    /\ rows[i].raw["User Full Name"] = Str(tDash)
    /\ AcceptedAt(rows[i]) = {3}
    /\ ObjHas(perPersonCounts, tAmy)

RowsOfDay(key) == {i \in 1..Len(rows) : dayKey(rows[i], tz) = key}

ImpoundedRowsOfDay(key) == {i \in RowsOfDay(key) : Truthy(rows[i].impounded)}

DayKeys == {dayKey(rows[i], tz) : i \in 1..Len(rows)}

\* C6 as claimed: "Unknown Date" is no entry of the trend series of any
\* report, and the rows without a parsable date still count.
C6_UnknownDateNotInTrends ==
  pc = "done" =>
    /\ report.trends # Null => \A i \in 1..Len(report.trends.dates) : report.trends.dates[i] # UnknownDate
    /\ total = Len(rows)

\* C6 as amended: when the trend series is produced and some row has no
\* parsable date, "Unknown Date" is the last entry of the series and carries
\* the number of those rows; it is no entry otherwise; the rows without
\* a parsable date count toward totalTrucks and the per-person, per-group
\* and per-shift counts.
C6_UnknownDateLastInTrends ==
  (pc = "done" /\ report.trends # Null) =>
    LET n == Len(report.trends.dates)
    IN /\ \A i \in 1..(n - 1) : report.trends.dates[i] # UnknownDate
       /\ report.trends.dates[n] = UnknownDate <=> RowsOfDay(UnknownDate) # {}
       /\ RowsOfDay(UnknownDate) # {} =>
            /\ report.trends.dailyCounts[n] = Cardinality(RowsOfDay(UnknownDate))
            /\ report.trends.dailyImpounded[n] = Cardinality(ImpoundedRowsOfDay(UnknownDate))
       /\ total = Len(rows)
       /\ SumCounts(perPersonCounts) = total
       /\ SumCounts(perGroupCounts) = total
       /\ SumCounts(perShiftCounts) = total

C6_Witness ==
  /\ pc = "done"
  /\ report.trends # Null
  /\ Len(report.trends.dates) = 2
  /\ report.trends.dates[2] = UnknownDate
  /\ report.trends.dailyCounts[2] = 2

\* C7 as claimed: whenever some row has a parsable date, one day included,
\* the trend series has exactly one entry per distinct parsed day key, in
\* ascending key order, each with the number of rows and of impounded rows
\* of its day.
C7_OneEntryPerParsedDay ==
  (pc = "done" /\ DayKeys \ {UnknownDate} # {}) =>
    /\ report.trends # Null
    /\ Len(report.trends.dates) = Cardinality(DayKeys \ {UnknownDate})
    /\ \A i \in 1..Len(report.trends.dates) :
         /\ sortedDates[i] # UnknownDate
         /\ report.trends.dailyCounts[i] = Cardinality(RowsOfDay(sortedDates[i]))
         /\ report.trends.dailyImpounded[i] = Cardinality(ImpoundedRowsOfDay(sortedDates[i]))

\* C7 as amended: when the rows fall into at least two day buckets, the
\* bucket "Unknown Date" of the rows without a parsable date counting as one,
\* the trend series has exactly one entry per day bucket, in ascending key
\* order with "Unknown Date" last, each with its label, the number of rows
\* and the number of impounded rows of its bucket; with fewer than two
\* buckets there is no trend series.
C7_OneEntryPerDayBucket ==
  pc = "done" =>
    IF Cardinality(DayKeys) < 2 THEN report.trends = Null
    ELSE /\ report.trends # Null
         /\ Len(report.trends.dates) = Cardinality(DayKeys)
         /\ Len(report.trends.dailyCounts) = Cardinality(DayKeys)
         /\ Len(report.trends.dailyImpounded) = Cardinality(DayKeys)
         /\ {sortedDates[i] : i \in 1..Len(sortedDates)} = DayKeys
         /\ \A i, j \in 1..Len(sortedDates) : i < j => StrLess(sortedDates[i], sortedDates[j])
         /\ UnknownDate \in DayKeys => sortedDates[Len(sortedDates)] = UnknownDate
         /\ \A i \in 1..Len(sortedDates) :
              /\ report.trends.dates[i] = TrendLabel(sortedDates[i])
              /\ report.trends.dailyCounts[i] = Cardinality(RowsOfDay(sortedDates[i]))
              /\ report.trends.dailyImpounded[i] = Cardinality(ImpoundedRowsOfDay(sortedDates[i]))

\* three buckets, met in descending order of their keys
C7_Witness ==
  /\ pc = "done"
  /\ report.trends # Null
  /\ Len(report.trends.dates) = 3
  /\ dayKey(rows[1], tz) = UnknownDate
  /\ StrLess(dayKey(rows[3], tz), dayKey(rows[2], tz))
  /\ report.trends.dailyImpounded[1] = 1

\* what a fine field's value contributes: its number, the number a numeric
\* text denotes, 0 for anything else
Contribution(v) ==
  CASE v.t = "number" -> v.n
    [] v.t = "string" /\ Trim(v.s) # <<>> /\ (\A i \in 1..Len(Trim(v.s)) : IsDigit(Trim(v.s)[i])) ->
         StrToNat(Trim(v.s))
    [] OTHER -> 0

RECURSIVE SumFields(_, _)
SumFields(r, n) == IF n = 0 THEN 0 ELSE SumFields(r, n - 1) + Contribution(r[FineFields[n]])

IsNumber(v) == v.t = "number"

\* C9: the revenue of a row is a number, never NaN, and for a row that has
\* only its eight fine fields it is their sum, a missing, non-numeric or
\* unparsable field contributing 0 (all eight missing: 0; amountDue 100 and
\* gvmFine 50: 150); totalRevenue and every per-person, per-group and
\* per-shift revenue sum are numbers, never NaN.
C9_RevenueIsANumber ==
  /\ \A i \in 1..Len(rows) :
       /\ IsNumber(rowRevenue(rows[i]))
       /\ rows[i].raw = NoRaw => rowRevenue(rows[i]) = Num(SumFields(rows[i], 8))
       /\ rows[i] = BaseRow => rowRevenue(rows[i]) = Num(0)
       /\ rows[i] = ExampleRow => rowRevenue(rows[i]) = Num(150)
  /\ IsNumber(totalRevenue)
  /\ \A i \in 1..Len(perPersonRevenue) : IsNumber(perPersonRevenue[i].v)
  /\ \A i \in 1..Len(perGroupRevenue) : IsNumber(perGroupRevenue[i].v)
  /\ \A i \in 1..Len(perShiftRevenue) : IsNumber(perShiftRevenue[i].v)
  /\ pc = "done" => \A i \in 1..Len(report.peopleRows) : IsNumber(report.peopleRows[i].revenue)

\* a row with a non-numeric text in a fine field, next to the example row
C9_Witness ==
  /\ pc = "done"
  /\ Len(rows) = 2
  /\ rows[1].d3Fine = Str(tAbc)
  /\ rows[2] = ExampleRow
  /\ totalRevenue = Num(150)

\* C10: a fine field that is present with a numeric value, 0 included, is
\* what the revenue uses; the raw column is used only when the field is
\* absent.
C10_CanonicalBeforeRaw ==
  \A i \in 1..Len(rows) : \A f \in 1..8 :
    IsNumber(rows[i][FineFields[f]]) => fine(rows[i], f) = rows[i][FineFields[f]]

\* the values a mapping stores under exactly this name
Stored(mapping, name) == {mapping[i].v : i \in {j \in 1..Len(mapping) : mapping[j].k = name}}

BucketOf(mapping, name) ==
  IF Stored(mapping, name) \subseteq {""} THEN "Unassigned"
  ELSE CHOOSE v \in Stored(mapping, name) : v # ""

GroupOfRow(i) == BucketOf(peopleToGroup, resolvePersonName(rows[i]))

ShiftOfRow(i) == BucketOf(peopleToShift, resolvePersonName(rows[i]))

\* C11: a row is counted in the group (shift) bucket named by the value the
\* mapping stores under exactly its resolved person name, letter case and
\* padding included, and in "Unassigned" exactly when the mapping has no such
\* key or stores the empty text under it; the group and shift columns of the
\* per-person table come from the same lookup.
C11_LookupByExactName ==
  /\ \A i \in 1..Len(rows) :
       /\ ObjHas(perGroupCounts, GroupOfRow(i))
       /\ ObjHas(perShiftCounts, ShiftOfRow(i))
       /\ GroupOfRow(i) = "Unassigned" <=>
            \/ resolvePersonName(rows[i]) \notin Keys(peopleToGroup)
            \/ ObjGet(peopleToGroup, resolvePersonName(rows[i])) = ""
       /\ ShiftOfRow(i) = "Unassigned" <=>
            \/ resolvePersonName(rows[i]) \notin Keys(peopleToShift)
            \/ ObjGet(peopleToShift, resolvePersonName(rows[i])) = ""
  /\ \A j \in 1..Len(perGroupCounts) :
       perGroupCounts[j].v = Cardinality({i \in 1..Len(rows) : GroupOfRow(i) = perGroupCounts[j].k})
  /\ \A j \in 1..Len(perShiftCounts) :
       perShiftCounts[j].v = Cardinality({i \in 1..Len(rows) : ShiftOfRow(i) = perShiftCounts[j].k})
  /\ pc = "done" =>
       \A j \in 1..Len(report.peopleRows) :
         /\ report.peopleRows[j].group = BucketOf(peopleToGroup, report.peopleRows[j].person)
         /\ report.peopleRows[j].shift = BucketOf(peopleToShift, report.peopleRows[j].person)

\* the mapping knows "bob": the rows of "bob" are in its group, the rows of
\* "Bob", one of them padded, are unassigned
C11_Witness ==
  /\ pc = "done"
  /\ peopleToGroup = <<[k |-> tbob, v |-> "Alpha"]>>
  /\ Len(rows) = 3
  /\ rows[1].person = Str(tBobPadded)
  /\ rows[2].person = Str(tbob)
  /\ rows[3].person = Str(tBob)
  /\ perGroupCounts = <<[k |-> "Unassigned", v |-> 2], [k |-> "Alpha", v |-> 1]>>

ImpoundedRows == {i \in 1..Len(rows) : Truthy(rows[i].impounded)}

\* C12: impoundedRate is totalImpounded / totalTrucks x 100, totalImpounded
\* being the number of impounded rows and totalTrucks the number of rows; it
\* lies in [0, 100], and it is 0 for the empty rows argument.
C12_ImpoundedRate ==
  pc = "done" =>
    /\ total = Len(rows)
    /\ totalImpounded = Cardinality(ImpoundedRows)
    /\ totalImpounded <= total
    /\ report.impoundedRate.den > 0
    /\ report.impoundedRate.num * total = 100 * totalImpounded * report.impoundedRate.den
    /\ 0 <= report.impoundedRate.num
    /\ report.impoundedRate.num <= 100 * report.impoundedRate.den
    /\ rows = <<>> => report.impoundedRate.num = 0

\* one impounded row of ten: the rate is 10
C12_Witness ==
  /\ pc = "done"
  /\ Len(rows) = 10
  /\ Cardinality(ImpoundedRows) = 1
  /\ report.impoundedRate = Frac(100, 10)

DangerAlerts == {i \in 1..Len(report.alerts) : report.alerts[i].type = "danger"}

ElevatedAlerts ==
  {i \in 1..Len(report.alerts) :
     report.alerts[i].type = "warning" /\ report.alerts[i].title = "Elevated Impound Rate"}

\* C13: a report has exactly one "danger" impound alert and no "warning"
\* impound alert when impoundedRate > 15, exactly one "warning" impound alert
\* and no "danger" alert when 10 < impoundedRate <= 15, and neither when
\* impoundedRate <= 10.
C13_OneImpoundTier ==
  pc = "done" =>
    LET rate == report.impoundedRate
    IN IF rate.num > 15 * rate.den
       THEN /\ Cardinality(DangerAlerts) = 1
            /\ \A i \in DangerAlerts : report.alerts[i].title = "High Impound Rate Alert"
            /\ ElevatedAlerts = {}
       ELSE IF rate.num > 10 * rate.den
       THEN Cardinality(ElevatedAlerts) = 1 /\ DangerAlerts = {}
       ELSE ElevatedAlerts = {} /\ DangerAlerts = {}

\* one impounded row of seven: the rate is between the thresholds
C13_Witness ==
  /\ pc = "done"
  /\ Len(rows) = 7
  /\ Cardinality(ImpoundedRows) = 1
  /\ Cardinality(ElevatedAlerts) = 1
  /\ DangerAlerts = {}

\* the names of the per-person table, "Unknown" included
TableNames == {resolvePersonName(rows[i]) : i \in 1..Len(rows)}

NamedPeople == TableNames \ {UnknownName}

\* count < (rows / named people) x 0.5, the average being 0 without named people
BelowHalfAverage(p) ==
  NamedPeople # {} /\ 2 * Cardinality(RowsOf(p)) * Cardinality(NamedPeople) < Len(rows)

UnderPerformers == {p \in TableNames : BelowHalfAverage(p)}

PerformanceAlerts ==
  {i \in 1..Len(report.alerts) : report.alerts[i].title = "Performance Gap Identified"}

\* C14: a report has exactly one underperformance alert, a "warning" naming
\* the number of such persons, if and only if some person of the per-person
\* table has fewer rows than half of avgTrucksPerPerson; it has none
\* otherwise, and never one per person.
C14_OneUnderperformanceAlert ==
  pc = "done" =>
    IF UnderPerformers # {}
    THEN /\ Cardinality(PerformanceAlerts) = 1
         /\ \A i \in PerformanceAlerts :
              /\ report.alerts[i].type = "warning"
              /\ report.alerts[i].count = Cardinality(UnderPerformers)
    ELSE PerformanceAlerts = {}

\* two people with one row each next to three rows without a name
C14_Witness ==
  /\ pc = "done"
  /\ Len(rows) = 5
  /\ UnderPerformers = {tBob, tAmy}
  /\ \E i \in PerformanceAlerts : report.alerts[i].count = 2

UnassignedPeople ==
  {p \in TableNames :
     BucketOf(peopleToGroup, p) = "Unassigned" \/ BucketOf(peopleToShift, p) = "Unassigned"}

AssignmentAlerts == {i \in 1..Len(report.alerts) : report.alerts[i].type = "info"}

\* C15: a report has exactly one "info" alert, naming the number of such
\* persons, if and only if some person of the per-person table has group
\* "Unassigned" or shift "Unassigned"; it has none otherwise.
C15_OneAssignmentAlert ==
  pc = "done" =>
    IF UnassignedPeople # {}
    THEN /\ Cardinality(AssignmentAlerts) = 1
         /\ \A i \in AssignmentAlerts :
              /\ report.alerts[i].title = "Assignment Needed"
              /\ report.alerts[i].count = Cardinality(UnassignedPeople)
    ELSE AssignmentAlerts = {}

\* a person with a shift and no group, a person with both, rows without a name
C15_Witness ==
  /\ pc = "done"
  /\ TableNames = {tBob, tAmy, UnknownName}
  /\ UnassignedPeople = {tBob, UnknownName}
  /\ BucketOf(peopleToShift, tBob) = "Night"
  /\ \E i \in AssignmentAlerts : report.alerts[i].count = 2

\* 1 for an impound-rate alert, 2 for the underperformance alert, 3 for the
\* unassigned alert
AlertRule(a) ==
  CASE a.title \in {"High Impound Rate Alert", "Elevated Impound Rate"} -> 1
    [] a.title = "Performance Gap Identified" -> 2
    [] a.title = "Assignment Needed" -> 3

RuleMatches(k) ==
  CASE k = 1 -> report.impoundedRate.num > 10 * report.impoundedRate.den
    [] k = 2 -> UnderPerformers # {}
    [] k = 3 -> UnassignedPeople # {}

\* C16: the alerts of a report are in the order impound rate,
\* underperformance, unassigned; each rule that matches has its alert in the
\* list whatever the other rules do, each rule at most once, so there are at
\* most three alerts.
C16_AlertOrder ==
  pc = "done" =>
    /\ Len(report.alerts) <= 3
    /\ \A i, j \in 1..Len(report.alerts) :
         i < j => AlertRule(report.alerts[i]) < AlertRule(report.alerts[j])
    /\ \A k \in 1..3 :
         RuleMatches(k) <=> \E i \in 1..Len(report.alerts) : AlertRule(report.alerts[i]) = k

\* all three rules match
C16_Witness ==
  /\ pc = "done"
  /\ Len(report.alerts) = 3
  /\ report.alerts[1].type = "danger"
  /\ report.alerts[2].type = "warning"
  /\ report.alerts[3].type = "info"

\* C17: avgTrucksPerPerson is the number of rows divided by uniquePeople, the
\* number of distinct resolved names other than "Unknown", and it is 0 when
\* that number is 0, also when there are rows and all of them resolve to
\* "Unknown"; nothing is divided by zero.
C17_AverageRowsPerPerson ==
  pc = "done" =>
    /\ report.uniquePeople = Cardinality(NamedPeople)
    /\ report.avgTrucksPerPerson.den > 0
    /\ IF NamedPeople = {} THEN report.avgTrucksPerPerson.num = 0
       ELSE report.avgTrucksPerPerson.num * Cardinality(NamedPeople) =
              Len(rows) * report.avgTrucksPerPerson.den

\* two rows, both without a name
C17_Witness ==
  /\ pc = "done"
  /\ Len(rows) = 2
  /\ TableNames = {UnknownName}
  /\ report.uniquePeople = 0
  /\ report.avgTrucksPerPerson = Frac(0, 1)

GroupNames == {GroupOfRow(i) : i \in 1..Len(rows)}

GroupSize(g) == Cardinality({i \in 1..Len(rows) : GroupOfRow(i) = g})

\* C18: for a non-empty rows argument topGroup names a group bucket,
\* "Unassigned" included, that no other bucket exceeds in rows;
\* topGroup.trucks is its number of rows and topGroup.percentage is that
\* number / totalTrucks x 100, in (0, 100].
C18_TopGroup ==
  (pc = "done" /\ rows # <<>>) =>
    /\ report.topGroup.name \in GroupNames
    /\ \A g \in GroupNames : GroupSize(g) <= GroupSize(report.topGroup.name)
    /\ report.topGroup.trucks = GroupSize(report.topGroup.name)
    /\ report.topGroup.percentage.den > 0
    /\ report.topGroup.percentage.num * Len(rows) =
         100 * report.topGroup.trucks * report.topGroup.percentage.den
    /\ 0 < report.topGroup.percentage.num
    /\ report.topGroup.percentage.num <= 100 * report.topGroup.percentage.den

\* three groups; the largest, "Unassigned", is met last
C18_Witness ==
  /\ pc = "done"
  /\ Len(rows) = 5
  /\ GroupOfRow(1) = "Alpha"
  /\ GroupOfRow(2) = "Beta"
  /\ report.topGroup = [name |-> "Unassigned", trucks |-> 3, percentage |-> Frac(300, 5)]

\* C19: for the empty rows argument the report has totalTrucks,
\* totalImpounded and totalRevenue 0, empty per-person, per-group and
\* per-shift mappings, an empty per-person table, no alert, and uniquePeople,
\* avgTrucksPerPerson, impoundedRate and topGroup.percentage 0, whatever the
\* two assignment mappings hold.
C19_EmptyRows ==
  (pc = "done" /\ rows = <<>>) =>
    /\ total = 0
    /\ totalImpounded = 0
    /\ totalRevenue = Num(0)
    /\ perPersonCounts = <<>>
    /\ perGroupCounts = <<>>
    /\ perShiftCounts = <<>>
    /\ report.peopleRows = <<>>
    /\ report.alerts = <<>>
    /\ report.uniquePeople = 0
    /\ report.avgTrucksPerPerson.num = 0 /\ report.avgTrucksPerPerson.den # 0
    /\ report.impoundedRate.num = 0 /\ report.impoundedRate.den # 0
    /\ report.topGroup.percentage.num = 0 /\ report.topGroup.percentage.den # 0

\* no rows, two mappings with entries
C19_Witness ==
  /\ pc = "done"
  /\ rows = <<>>
  /\ Len(peopleToGroup) = 2
  /\ Len(peopleToShift) = 2

LocalDay(r) == SubSeq(r.date.s, 1, 10)

\* C21: the day bucket of a row whose date parses is the calendar date of
\* the row in local time, so two rows of the same local calendar day are in
\* the same day bucket, whatever the offset of local time from UTC.
C21_LocalDayBucket ==
  /\ \A i \in 1..Len(rows) :
       /\ dayKey(rows[i], tz) = LocalDay(rows[i])
       /\ ObjHas(dailyActivity, LocalDay(rows[i]))
  /\ \A i, j \in 1..Len(rows) :
       LocalDay(rows[i]) = LocalDay(rows[j]) => dayKey(rows[i], tz) = dayKey(rows[j], tz)

RECURSIVE SumNumbers(_)
SumNumbers(o) == IF o = <<>> THEN 0 ELSE Head(o).v.n + SumNumbers(Tail(o))

RECURSIVE SumRowRevenue(_)
SumRowRevenue(n) == IF n = 0 THEN 0 ELSE SumRowRevenue(n - 1) + rowRevenue(rows[n]).n

RECURSIVE SumColumn(_)
SumColumn(table) == IF table = <<>> THEN 0 ELSE Head(table).revenue.n + SumColumn(Tail(table))

RECURSIVE SumDays(_, _)
SumDays(activity, field) ==
  IF activity = <<>> THEN 0 ELSE Head(activity).v[field] + SumDays(Tail(activity), field)

\* C30: in every report the per-person impounded counts, impoundedByShift,
\* impoundedByGroup and the impounded counts of the day buckets, "Unknown
\* Date" included, each sum to totalImpounded, the number of impounded rows;
\* the totals of the day buckets sum to totalTrucks; and no person, group,
\* shift or day bucket has more impounded rows than rows.
C30_ImpoundedConsistent ==
  pc = "done" =>
    /\ totalImpounded = Cardinality(ImpoundedRows)
    /\ SumCounts(perPersonImpounded) = totalImpounded
    /\ SumCounts(impoundedByShift) = totalImpounded
    /\ SumCounts(impoundedByGroup) = totalImpounded
    /\ SumDays(dailyActivity, "impounded") = totalImpounded
    /\ SumDays(dailyActivity, "total") = total
    /\ total = Len(rows)
    /\ \A i \in 1..Len(perPersonImpounded) :
         perPersonImpounded[i].v <= CountOf(perPersonCounts, perPersonImpounded[i].k)
    /\ \A i \in 1..Len(impoundedByShift) :
         impoundedByShift[i].v <= CountOf(perShiftCounts, impoundedByShift[i].k)
    /\ \A i \in 1..Len(impoundedByGroup) :
         impoundedByGroup[i].v <= CountOf(perGroupCounts, impoundedByGroup[i].k)
    /\ \A i \in 1..Len(dailyActivity) :
         /\ dailyActivity[i].v.impounded <= dailyActivity[i].v.total
         /\ dailyActivity[i].v.total = Cardinality(RowsOfDay(dailyActivity[i].k))
         /\ dailyActivity[i].v.impounded = Cardinality(ImpoundedRowsOfDay(dailyActivity[i].k))
    /\ \A i \in 1..Len(report.peopleRows) :
         report.peopleRows[i].impounded <= report.peopleRows[i].trucks

\* two impounded rows of two people, one with a date and one without
C30_Witness ==
  /\ pc = "done"
  /\ totalImpounded = 2
  /\ Len(perPersonImpounded) = 2
  /\ Len(dailyActivity) = 2
  /\ ObjHas(dailyActivity, UnknownDate)
  /\ ObjGet(dailyActivity, UnknownDate).impounded = 1
  /\ Len(impoundedByGroup) = 2

\* the hour a timestamp shows on the local clock: the hour field of a text
\* without a zone, the zone's offset from midnight for a day without a time
LocalHour ==
  IF IsDateTime(wDateRaw.s) THEN TwoDigits(wDateRaw.s, 12) ELSE tz % 24

Parsable == wDateRaw.t = "string" /\ (IsDateOnly(wDateRaw.s) \/ IsDateTime(wDateRaw.s))

\* C22: inferShift maps a parsable timestamp to one shift by its local hour h:
\* Morning iff 6 <= h < 14, Afternoon iff 14 <= h < 22, Night otherwise; an
\* empty, missing or unparsable timestamp gives "Unknown", a parsable one never
C22_ShiftByLocalHour ==
  inferred # "" =>
    IF Parsable
    THEN /\ inferred \in {"Morning", "Afternoon", "Night"}
         /\ inferred = "Morning" <=> (6 <= LocalHour /\ LocalHour < 14)
         /\ inferred = "Afternoon" <=> (14 <= LocalHour /\ LocalHour < 22)
         /\ inferred = "Night" <=> (LocalHour < 6 \/ LocalHour >= 22)
    ELSE inferred = "Unknown"

\* the last minute of the morning, in a zone away from UTC
C22_Witness ==
  /\ inferred = "Morning"
  /\ tz = 2
  /\ wDateRaw = Str(January \o Pad2(3) \o <<"T">> \o Pad2(13) \o <<":">> \o Pad2(59))

\* the records of a store whose name is this one but for the case of letters
Alike(store, name) == {p \in store : ToLowerCase(p.name) = ToLowerCase(name)}

\* the store a logged call found
Before(i) == IF i = 1 THEN {} ELSE log[i - 1].after

Supplied(p, group, shift) ==
  [p EXCEPT !.group = IF group # <<>> THEN group ELSE p.group,
            !.shift = IF shift # <<>> THEN shift ELSE p.shift]

\* C24: addPerson(name, group, shift), called when a person of the same name
\* ignoring case exists, adds no record: the number of people is unchanged and
\* the existing record takes the supplied non-empty group and shift, keeping
\* its name and its id
C24_AddPersonUpdatesExisting ==
  \A i \in 1..Len(log) :
    log[i].op = "addPerson" /\ Alike(Before(i), log[i].name) # {} =>
      /\ Cardinality(log[i].after) = Cardinality(Before(i))
      /\ \E p \in Alike(Before(i), log[i].name) :
           log[i].after = (Before(i) \ {p}) \cup {Supplied(p, log[i].group, log[i].shift)}

\* 'Bob' of team A is added again as 'bob' with team B and the morning shift
C24_Witness ==
  /\ Len(log) = 2
  /\ log[1].op = "addPerson" /\ log[1].after = {[id |-> 1, name |-> tBob, group |-> tTeamA, shift |-> <<>>]}
  /\ log[2].op = "addPerson" /\ log[2].name = tbob
  /\ log[2].after = {[id |-> 1, name |-> tBob, group |-> tTeamB, shift |-> tMorning]}

\* C25: addPersonIfNotExists called twice with the same name, group and shift
\* returns the same id both times and leaves exactly one record for the name,
\* with the group and the shift it had after the first call
C25_AddIfNotExistsIdempotent ==
  \A i \in 1..(Len(log) - 1) :
    /\ log[i].op = "addPersonIfNotExists" /\ log[i + 1].op = "addPersonIfNotExists"
    /\ log[i].name = log[i + 1].name /\ log[i].group = log[i + 1].group /\ log[i].shift = log[i + 1].shift
    => /\ log[i].result.t = "number"
       /\ log[i + 1].result = log[i].result
       /\ \E p \in log[i + 1].after :
            /\ Alike(log[i + 1].after, Trim(log[i].name)) = {p}
            /\ p \in log[i].after

AllRunsDone == \A k \in 1..Len(runs) : runs[k].pc = "done"

C27_FallbackRestoresSession ==
  [][loading = "getAllPeople" /\ loading' = "done" /\ peopleStore = {} /\ stored # NoItem
       => /\ rows' = stored.rows
          /\ peopleToGroup' = stored.peopleToGroup
          /\ peopleToShift' = stored.peopleToShift]_vars

\* C28: two assignments of one person, first to group A and then to group B,
\* both non-empty: when both runs of syncGroupAssignments have finished, the
\* person's record in the database has group B
C28_LastAssignmentWins ==
  /\ Len(runs) = 2 /\ AllRunsDone
  /\ runs[1].kind = "assign" /\ runs[2].kind = "assign"
  /\ runs[1].synced /\ runs[2].synced
  /\ runs[1].person = runs[2].person
  /\ runs[1].group # <<>> /\ runs[2].group # <<>>
  => /\ \E p \in peopleStore : p.name = runs[2].person
     /\ \A p \in peopleStore : p.name = runs[2].person => p.group = runs[2].group

====
